---- MODULE Spec2Model ----
(***************************************************************************)
(* A model of the HighDupe analysis engine: the LaTeX segmenter            *)
(* (DocumentParser), the duplicate-word detector (DuplicateWordChecker)    *)
(* and the incremental analyzer (Executor.runChecks with its per-document  *)
(* cache).                                                                 *)
(*                                                                         *)
(* Text.  A line is a sequence of lexemes.  A lexeme is either one         *)
(* punctuation character (backslash, braces, percent, dollar, space,       *)
(* star, full stop) or a run of letters (a TLA+ string).  The string a     *)
(* line stands for is the concatenation of its lexemes; columns are        *)
(* counted in characters (Len of the lexeme strings).  Every regular       *)
(* expression of the source is translated to the lexeme level: a word      *)
(* (\w+ between \b) is a maximal run of letter lexemes, a literal such as  *)
(* \begin{equation} is the corresponding lexeme sequence.  No letter       *)
(* lexeme of the vocabulary is split by any match of the source's          *)
(* expressions, so the translation is exact on the lines considered.       *)
(*                                                                         *)
(* Line numbers, columns and paragraph ordinals are zero-based as in the   *)
(* source; TLA+ sequences are one-based, so line i of a document d is      *)
(* d[i + 1].                                                               *)
(***************************************************************************)
EXTENDS Integers, Sequences, FiniteSets, TLC

VARIABLES
    docs,        \* uri -> the lines of the open document (host document model)
    cache,       \* Executor.cache: uri -> DocumentCache, or NoCache
    settings,    \* DuplicateWordChecker.settings (with .enabled)
    pass,        \* history: what the last runChecks did
    since,       \* history: uri -> what happened since the last pass on it
    edits,       \* history: number of edits, configuration changes and cache clears so far
    chkDoc,      \* detector runs: the document handed to parse + check
    chkParas,    \* detector runs: DocumentContext.paragraphs
    chkDups,     \* detector runs: findDuplicatesInText of each paragraph
    chkResults,  \* detector runs: the list returned by check
    chkPc,       \* detector runs: "idle", "ready" or "checked"
    activation,        \* extension: "inactive", "active" or "deactivated"
    isCheckingEnabled, \* extension.ts: the module-level flag
    activeTextEditor,  \* host: vscode.window.activeTextEditor ("none": undefined)
    checkTimer,        \* Executor.checkTimer: a timer id (0: undefined)
    timers,            \* host: the live interval timers, with editor and interval
    checkInterval,     \* Executor.configuration.checkInterval
    userConfig,        \* host: the exclusion lists stored in the user's settings
    pending,           \* add-to-exclude-list commands waiting at "await config.update"
    events             \* history: number of extension events so far

extVars == <<activation, isCheckingEnabled, activeTextEditor, checkTimer, timers,
             checkInterval, userConfig, pending, events>>

vars == <<docs, cache, settings, pass, since, edits,
          chkDoc, chkParas, chkDups, chkResults, chkPc, extVars>>

\* the extension is not activated: no timer, no command
NoExtension ==
    /\ activation = "inactive"
    /\ isCheckingEnabled = FALSE
    /\ activeTextEditor = "none"
    /\ checkTimer = 0
    /\ timers = {}
    /\ checkInterval = 3000
    /\ userConfig = [checkInterval |-> 3000, global |-> <<>>, project |-> <<>>]
    /\ pending = {}
    /\ events = 0

execVars == <<docs, cache, pass, since, edits>>
chkVars == <<chkDoc, chkParas, chkDups, chkResults, chkPc>>

-----------------------------------------------------------------------------
(* Characters and words *)

BS == "\\"

Punct == {BS, "{", "}", "%", "$", " ", "*", "."}

\* \w: the letter lexemes are the word characters; no punctuation lexeme is
IsWordChar(x) == x \notin Punct

\* [a-zA-Z]+ : every letter lexeme of the vocabulary is made of letters only
IsLetters(x) == x \notin Punct

\* String.prototype.toLowerCase on one lexeme of the vocabulary
Lower(x) ==
    CASE x = "Dup" -> "dup"
      [] x = "DUP" -> "dup"
      [] x = "The" -> "the"
      [] x = "Word" -> "word"
      [] x = "Key" -> "key"
      [] OTHER -> x

\* the lexemes x for which a backslash followed by x contains '\par'
StartsWithPar(x) == x \in {"par", "paragraph", "part", "parbox"}

RECURSIVE Concat(_)
Concat(s) == IF s = <<>> THEN "" ELSE Head(s) \o Concat(Tail(s))

RECURSIVE CharLen(_)
CharLen(s) == IF s = <<>> THEN 0 ELSE Len(Head(s)) + CharLen(Tail(s))

LowerSeq(s) == [i \in DOMAIN s |-> Lower(s[i])]

\* the last lexeme of the maximal word run that starts at lexeme i
RECURSIVE RunEnd(_, _)
RunEnd(line, i) ==
    IF i < Len(line) /\ IsWordChar(line[i + 1]) THEN RunEnd(line, i + 1) ELSE i

\* /\b\w+\b/g : the maximal runs of word characters, left to right
RECURSIVE WordRunsFrom(_, _)
WordRunsFrom(line, i) ==
    IF i > Len(line) THEN <<>>
    ELSE IF IsWordChar(line[i])
         THEN LET j == RunEnd(line, i)
              IN  <<[from |-> i, to |-> j]>> \o WordRunsFrom(line, j + 1)
         ELSE WordRunsFrom(line, i + 1)

WordRuns(line) == WordRunsFrom(line, 1)

RunText(line, r) == Concat(SubSeq(line, r.from, r.to))

\* the run's text after toLowerCase (what a case-insensitive match compares)
LowerRunText(line, r) == Concat(LowerSeq(SubSeq(line, r.from, r.to)))

\* contiguous occurrence of the lexeme sequence pat at lexeme i of line
MatchAt(line, i, pat) ==
    /\ i >= 1
    /\ i + Len(pat) - 1 <= Len(line)
    /\ \A k \in 1..Len(pat) : line[i + k - 1] = pat[k]

\* String.prototype.includes for a literal
Includes(line, pat) == \E i \in 1..Len(line) : MatchAt(line, i, pat)

\* String.prototype.lastIndexOf for a literal (0 when absent, for -1)
LastIndexOf(line, pat) ==
    LET hits == {i \in 1..Len(line) : MatchAt(line, i, pat)}
    IN  IF hits = {} THEN 0 ELSE CHOOSE i \in hits : \A j \in hits : j <= i

\* String.prototype.indexOf for one character, searching from lexeme `from`
\* (0 when absent, for -1)
IndexOfFrom(line, c, from) ==
    LET hits == {i \in from..Len(line) : line[i] = c}
    IN  IF hits = {} THEN 0 ELSE CHOOSE i \in hits : \A j \in hits : i <= j

\* String.prototype.trim
RECURSIVE TrimLeft(_)
TrimLeft(s) == IF s # <<>> /\ Head(s) = " " THEN TrimLeft(Tail(s)) ELSE s

RECURSIVE TrimRight(_)
TrimRight(s) ==
    IF s # <<>> /\ s[Len(s)] = " " THEN TrimRight(SubSeq(s, 1, Len(s) - 1)) ELSE s

Trim(s) == TrimRight(TrimLeft(s))

\* lineText.trim().startsWith('%')
IsCommentLine(line) == LET t == Trim(line) IN t # <<>> /\ t[1] = "%"

-----------------------------------------------------------------------------
(* DocumentParser: the line rewrite (preprocessLatexLine) *)

\* line.replace(/(?<!\\)%.*$/, '')
StripComment(line) ==
    LET hits == {i \in 1..Len(line) :
                    line[i] = "%" /\ ~(i > 1 /\ line[i - 1] = BS)}
    IN  IF hits = {} THEN line
        ELSE SubSeq(line, 1, (CHOOSE i \in hits : \A j \in hits : i <= j) - 1)

\* line.replace(/\$\$.*?\$\$/g, '')
RECURSIVE RemoveDisplayMathFrom(_, _)
RemoveDisplayMathFrom(line, i) ==
    IF i > Len(line) THEN <<>>
    ELSE LET closers == {j \in (i + 2)..Len(line) : MatchAt(line, j, <<"$", "$">>)}
         IN  IF MatchAt(line, i, <<"$", "$">>) /\ closers # {}
             THEN LET j == CHOOSE j \in closers : \A k \in closers : j <= k
                  IN  RemoveDisplayMathFrom(line, j + 2)
             ELSE <<line[i]>> \o RemoveDisplayMathFrom(line, i + 1)

\* line.replace(/\$.*?\$/g, '')
RECURSIVE RemoveInlineMathFrom(_, _)
RemoveInlineMathFrom(line, i) ==
    IF i > Len(line) THEN <<>>
    ELSE LET j == IndexOfFrom(line, "$", i + 1)
         IN  IF line[i] = "$" /\ j # 0
             THEN RemoveInlineMathFrom(line, j + 1)
             ELSE <<line[i]>> \o RemoveInlineMathFrom(line, i + 1)

\* line.replace(/\\(n1|n2|...)\*?\{([^}]+)\}/g, keep ? '$2' : '') ; the
\* expressions without \*? pass star = FALSE
RECURSIVE ReplaceCommandFrom(_, _, _, _, _)
ReplaceCommandFrom(line, i, names, star, keep) ==
    IF i > Len(line) THEN <<>>
    ELSE LET named == line[i] = BS /\ i + 1 <= Len(line) /\ line[i + 1] \in names
             b == IF star /\ i + 2 <= Len(line) /\ line[i + 2] = "*"
                  THEN i + 3 ELSE i + 2
             open == named /\ b <= Len(line) /\ line[b] = "{"
             c == IF open THEN IndexOfFrom(line, "}", b + 1) ELSE 0
         IN  IF open /\ c >= b + 2
             THEN (IF keep THEN SubSeq(line, b + 1, c - 1) ELSE <<>>)
                  \o ReplaceCommandFrom(line, c + 1, names, star, keep)
             ELSE <<line[i]>> \o ReplaceCommandFrom(line, i + 1, names, star, keep)

CiteCommands == {"cite"}
RefCommands == {"label", "ref", "pageref", "eqref"}
FormatCommands == {"textbf", "textit", "emph", "underline", "textsc", "texttt"}
SectionCommands ==
    {"chapter", "section", "subsection", "subsubsection", "paragraph", "subparagraph"}

preprocessLatexLine(line) ==
    LET l1 == StripComment(line)
        l2 == RemoveDisplayMathFrom(l1, 1)
        l3 == RemoveInlineMathFrom(l2, 1)
        l4 == ReplaceCommandFrom(l3, 1, CiteCommands, FALSE, FALSE)
        l5 == ReplaceCommandFrom(l4, 1, RefCommands, FALSE, FALSE)
        l6 == ReplaceCommandFrom(l5, 1, FormatCommands, FALSE, TRUE)
        l7 == ReplaceCommandFrom(l6, 1, SectionCommands, TRUE, TRUE)
    IN  l7

-----------------------------------------------------------------------------
(* DocumentParser: paragraphs *)

\* faulty variant of BibEnvironments: the alternative thebibliography is lost
BibEnvironments_OnlyBibliography == {"bibliography"}

BibEnvironments == {"bibliography", "thebibliography"}
MathEnvironments == {"equation", "align", "gather", "multline", "flalign", "alignat"}

\* faulty variant of HasEnvMarker: the optional star is lost
HasEnvMarker_NoStar(line, marker, envs, star) ==
    \E e \in envs : Includes(line, <<BS, marker, "{", e, "}">>)

\* line.match(/\\<marker>\{(e1|e2|...)\*?\}/) ; star = FALSE without \*?
HasEnvMarker(line, marker, envs, star) ==
    \E e \in envs :
        \/ Includes(line, <<BS, marker, "{", e, "}">>)
        \/ star /\ Includes(line, <<BS, marker, "{", e, "*", "}">>)

\* lines.join(' ')
RECURSIVE Join(_)
Join(lines) ==
    IF lines = <<>> THEN <<>>
    ELSE IF Len(lines) = 1 THEN lines[1]
    ELSE lines[1] \o <<" ">> \o Join(Tail(lines))

\* faulty variant of addParagraph: first and last line number are exchanged
addParagraph_EndsExchanged(paragraphs, lines, lineNumbers) ==
    IF Len(lines) = 0 \/ Len(lineNumbers) = 0 THEN paragraphs
    ELSE LET paragraphText == Trim(Join(lines))
         IN  IF Len(paragraphText) = 0 THEN paragraphs
             ELSE Append(paragraphs,
                         [text |-> paragraphText,
                          startLine |-> lineNumbers[Len(lineNumbers)],
                          endLine |-> lineNumbers[1]])

addParagraph(paragraphs, lines, lineNumbers) ==
    IF Len(lines) = 0 \/ Len(lineNumbers) = 0 THEN paragraphs
    ELSE LET paragraphText == Trim(Join(lines))
         IN  IF Len(paragraphText) = 0 THEN paragraphs
             ELSE Append(paragraphs,
                         [text |-> paragraphText,
                          startLine |-> lineNumbers[1],
                          endLine |-> lineNumbers[Len(lineNumbers)]])

\* "if (currentParagraph.length > 0) { addParagraph(...); reset }"
FlushParagraph(st) ==
    IF Len(st.currentParagraph) > 0
    THEN [st EXCEPT !.paragraphs = addParagraph(@, st.currentParagraph,
                                                st.currentParagraphLines),
                    !.currentParagraph = <<>>,
                    !.currentParagraphLines = <<>>]
    ELSE st

\* one iteration of the for loop of parseLatexParagraphs, on line i (zero-based)
LatexLineStep(st, line, i) ==
    IF HasEnvMarker(line, "begin", BibEnvironments, FALSE)
    THEN FlushParagraph([st EXCEPT !.inBibliography = TRUE])
    ELSE IF HasEnvMarker(line, "end", BibEnvironments, FALSE)
    THEN [st EXCEPT !.inBibliography = FALSE]
    ELSE IF st.inBibliography
    THEN st
    ELSE LET s1 == IF HasEnvMarker(line, "begin", MathEnvironments, TRUE)
                   THEN FlushParagraph([st EXCEPT !.inMathEnvironment = TRUE])
                   ELSE st
         IN  IF HasEnvMarker(line, "end", MathEnvironments, TRUE)
             THEN [s1 EXCEPT !.inMathEnvironment = FALSE]
             ELSE IF s1.inMathEnvironment
             THEN s1
             ELSE IF IsCommentLine(line)
             THEN s1
             ELSE LET processedLine == preprocessLatexLine(line)
                      isBlankLine == Trim(processedLine) = <<>>
                      hasParCommand ==
                          \E k \in 1..(Len(line) - 1) :
                              line[k] = BS /\ StartsWithPar(line[k + 1])
                  IN  IF isBlankLine \/ hasParCommand
                      THEN FlushParagraph(s1)
                      ELSE [s1 EXCEPT
                              !.currentParagraph = Append(@, processedLine),
                              !.currentParagraphLines = Append(@, i)]

RECURSIVE ParseLatexFrom(_, _, _)
ParseLatexFrom(document, i, st) ==
    IF i >= Len(document) THEN FlushParagraph(st).paragraphs
    ELSE ParseLatexFrom(document, i + 1, LatexLineStep(st, document[i + 1], i))

parseLatexParagraphs(document) ==
    ParseLatexFrom(document, 0,
                   [inMathEnvironment |-> FALSE, inBibliography |-> FALSE,
                    currentParagraph |-> <<>>, currentParagraphLines |-> <<>>,
                    paragraphs |-> <<>>])

-----------------------------------------------------------------------------
(* DuplicateWordChecker *)

DEFAULT_EXCLUDE_WORDS ==
    {"the", "and", "a", "of", "to", "in", "is", "it", "that", "for",
     "as", "with", "on", "at", "by", "from", "or", "an", "be", "this",
     "was", "are", "have", "has", "had", "not", "but", "can", "will",
     "if", "we", "he", "she", "they", "you", "i", "my", "our", "your"}

\* the field initialiser of DuplicateWordChecker.settings (and .enabled)
DefaultSettings ==
    [enabled |-> TRUE, scope |-> "paragraph",
     excludeWords |-> [global |-> DEFAULT_EXCLUDE_WORDS, project |-> {}]]

\* getExcludedWords: [...global, ...project]; only membership is ever asked
getExcludedWords(st) == st.excludeWords.global \cup st.excludeWords.project

\* faulty variant of Tokens: toLowerCase is lost
Tokens_CaseSensitive(text) ==
    LET runs == WordRuns(text)
    IN  [k \in DOMAIN runs |-> RunText(text, runs[k])]

\* text.toLowerCase().match(/\b\w+\b/g) || []
Tokens(text) ==
    LET runs == WordRuns(text)
    IN  [k \in DOMAIN runs |-> LowerRunText(text, runs[k])]

\* faulty variant of CountWordsFrom: a new key is put in front of the others,
\* so the keys are not in insertion order
RECURSIVE CountWordsFrom_KeysInFront(_, _, _)
CountWordsFrom_KeysInFront(words, i, m) ==
    IF i > Len(words) THEN m
    ELSE LET w == words[i]
         IN  CountWordsFrom_KeysInFront(words, i + 1,
                IF w \in DOMAIN m.count
                THEN [m EXCEPT !.count[w] = @ + 1]
                ELSE [keys |-> <<w>> \o m.keys,
                      count |-> [x \in DOMAIN m.count \cup {w} |->
                                    IF x = w THEN 1 ELSE m.count[x]]])

\* the loop "wordCounts.set(word, (wordCounts.get(word) || 0) + 1)": a Map keeps
\* its keys in insertion order
RECURSIVE CountWordsFrom(_, _, _)
CountWordsFrom(words, i, m) ==
    IF i > Len(words) THEN m
    ELSE LET w == words[i]
         IN  CountWordsFrom(words, i + 1,
                IF w \in DOMAIN m.count
                THEN [m EXCEPT !.count[w] = @ + 1]
                ELSE [keys |-> Append(m.keys, w),
                      count |-> [x \in DOMAIN m.count \cup {w} |->
                                    IF x = w THEN 1 ELSE m.count[x]]])

\* faulty variant of findDuplicatesInText: the exclusion filter is lost
findDuplicatesInText_NoFilter(text, st) ==
    LET wordCounts == CountWordsFrom(Tokens(text), 1, [keys |-> <<>>, count |-> <<>>])
    IN  SelectSeq(wordCounts.keys, LAMBDA w : wordCounts.count[w] > 1)

findDuplicatesInText(text, st) ==
    LET excludedWords == getExcludedWords(st)
        words == Tokens(text)
        filteredWords == SelectSeq(words, LAMBDA w : w \notin excludedWords)
        wordCounts == CountWordsFrom(filteredWords, 1, [keys |-> <<>>, count |-> <<>>])
    IN  SelectSeq(wordCounts.keys, LAMBDA w : wordCounts.count[w] > 1)

\* the third test of isPartOfLatexCommand: /\\[a-zA-Z]+\{[^}]*$/ on the text
\* before the match, then a '}' after the match that comes before a '{'
InsideCommandBraces(lineText, from, to) ==
    LET textBeforeMatch == SubSeq(lineText, 1, from - 1)
        textAfterMatch == SubSeq(lineText, to + 1, Len(lineText))
        n == Len(textBeforeMatch)
        commandPattern ==
            \E i \in 1..n : \E b \in (i + 2)..n :
                /\ textBeforeMatch[i] = BS
                /\ \A k \in (i + 1)..(b - 1) : IsLetters(textBeforeMatch[k])
                /\ textBeforeMatch[b] = "{"
                /\ \A k \in (b + 1)..n : textBeforeMatch[k] # "}"
        close == IndexOfFrom(textAfterMatch, "}", 1)
        open == IndexOfFrom(textAfterMatch, "{", 1)
    IN  commandPattern /\ close # 0 /\ close < open

\* the first two tests of isPartOfLatexCommand; the match covers lexemes from..to
PrecededByBackslash(lineText, from) == from > 1 /\ lineText[from - 1] = BS

\* faulty variant of InsideEnvironmentName: only \begin{...} is looked for
InsideEnvironmentName_BeginOnly(lineText, from) ==
    LET beforeMatch == SubSeq(lineText, 1, from - 1)
        lastBegin == LastIndexOf(beforeMatch, <<BS, "begin", "{">>)
        closingBrace == IndexOfFrom(lineText, "}", lastBegin)
    IN  lastBegin # 0 /\ closingBrace # 0 /\ closingBrace > from

InsideEnvironmentName(lineText, from) ==
    LET beforeMatch == SubSeq(lineText, 1, from - 1)
        lastBegin == LastIndexOf(beforeMatch, <<BS, "begin", "{">>)
        lastEnd == LastIndexOf(beforeMatch, <<BS, "end", "{">>)
        \* afterBegin.indexOf('}') > startChar - lastBegin: the first '}' at or
        \* after the marker lies behind the start of the match
        closesAfter(marker) ==
            LET closingBrace == IndexOfFrom(lineText, "}", marker)
            IN  closingBrace # 0 /\ closingBrace > from
    IN  \/ lastBegin > lastEnd /\ lastBegin # 0 /\ closesAfter(lastBegin)
        \/ lastEnd > lastBegin /\ lastEnd # 0 /\ closesAfter(lastEnd)

isPartOfLatexCommand(lineText, from, to) ==
    \/ PrecededByBackslash(lineText, from)
    \/ InsideEnvironmentName(lineText, from)
    \/ InsideCommandBraces(lineText, from, to)

\* "Additional check: don't highlight inside comments (mid-line)"
AfterComment(lineText, from) ==
    LET beforeMatch == SubSeq(lineText, 1, from - 1)
    IN  Includes(beforeMatch, <<"%">>) /\ ~Includes(beforeMatch, <<BS, "%">>)

\* "Skip lines with table or math environments"
HasSkippedEnvironment(lineText) ==
    \/ Includes(lineText, <<BS, "begin", "{", "equation", "}">>)
    \/ Includes(lineText, <<BS, "begin", "{", "align", "}">>)
    \/ Includes(lineText, <<BS, "begin", "{", "table", "}">>)
    \/ Includes(lineText, <<"$", "$">>)

MakeResult(currentLine, lineText, r) ==
    LET matchText == RunText(lineText, r)
        startChar == CharLen(SubSeq(lineText, 1, r.from - 1))
    IN  [line |-> currentLine,
         startChar |-> startChar,
         endChar |-> startChar + Len(matchText),
         message |-> "Duplicate word: \"" \o matchText \o "\"",
         issueType |-> "duplicate-word",
         text |-> matchText]

\* faulty variant of LineOccurrences: the regular expression has lost its g flag, so
\* only the first match of a line is seen
LineOccurrences_FirstOnly(word, currentLine, lineText) ==
    LET runs == WordRuns(lineText)
        matches == SelectSeq(runs, LAMBDA r : LowerRunText(lineText, r) = word)
        first == SubSeq(matches, 1, IF Len(matches) > 0 THEN 1 ELSE 0)
        accepted ==
            SelectSeq(first, LAMBDA r :
                /\ ~isPartOfLatexCommand(lineText, r.from, r.to)
                /\ ~AfterComment(lineText, r.from))
    IN  [k \in DOMAIN accepted |-> MakeResult(currentLine, lineText, accepted[k])]

\* the while loop over regex.exec(lineText) for new RegExp(`\\b${word}\\b`, 'gi')
LineOccurrences(word, currentLine, lineText) ==
    LET runs == WordRuns(lineText)
        accepted ==
            SelectSeq(runs, LAMBDA r :
                /\ LowerRunText(lineText, r) = word
                /\ ~isPartOfLatexCommand(lineText, r.from, r.to)
                /\ ~AfterComment(lineText, r.from))
    IN  [k \in DOMAIN accepted |-> MakeResult(currentLine, lineText, accepted[k])]

\* faulty variant of LoopContinues: the line count is not looked at
LoopContinues_NoLineCount(currentLine, endLine, lineCount) == currentLine <= endLine

\* "currentLine <= endLine && currentLine < document.lineCount"
LoopContinues(currentLine, endLine, lineCount) ==
    currentLine <= endLine /\ currentLine < lineCount

RECURSIVE OccurrencesFrom(_, _, _, _)
OccurrencesFrom(word, document, currentLine, endLine) ==
    IF ~LoopContinues(currentLine, endLine, Len(document)) THEN <<>>
    ELSE LET lineText == document[currentLine + 1]
             here == IF IsCommentLine(lineText) \/ HasSkippedEnvironment(lineText)
                     THEN <<>>
                     ELSE LineOccurrences(word, currentLine, lineText)
         IN  here \o OccurrencesFrom(word, document, currentLine + 1, endLine)

findAllOccurrences(word, document, startLine, endLine) ==
    OccurrencesFrom(word, document, startLine, endLine)

\* "for (const duplicateWord of duplicates) results.push(...occurrences)"
RECURSIVE ParagraphResultsFrom(_, _, _, _)
ParagraphResultsFrom(duplicates, k, document, paragraph) ==
    IF k > Len(duplicates) THEN <<>>
    ELSE findAllOccurrences(duplicates[k], document,
                            paragraph.startLine, paragraph.endLine)
         \o ParagraphResultsFrom(duplicates, k + 1, document, paragraph)

\* "for (const paragraph of context.paragraphs)"
RECURSIVE CheckFrom(_, _, _, _)
CheckFrom(paragraphs, k, document, st) ==
    IF k > Len(paragraphs) THEN <<>>
    ELSE ParagraphResultsFrom(findDuplicatesInText(paragraphs[k].text, st), 1,
                              document, paragraphs[k])
         \o CheckFrom(paragraphs, k + 1, document, st)

\* check(context): context.paragraphs and context.document
check(paragraphs, document, st) == CheckFrom(paragraphs, 1, document, st)

-----------------------------------------------------------------------------
(* Executor *)

\* DocumentParser.parseDocument for a LaTeX document: context.paragraphs
parseDocument(document) == parseLatexParagraphs(document)

\* hashParagraph: the MD5 digest of the text.  Two texts get the same digest
\* exactly when they are equal (no collision is modelled), so the digest is
\* represented by the text it was computed from, tagged.
hashParagraph(text) == <<"md5", text>>

\* no entry in Executor.cache for the uri
NoCache == [absent |-> TRUE]

\* "docCache = { paragraphHashes: new Map(), results: [] }"
EmptyCache == [paragraphHashes |-> <<>>, results |-> <<>>]

\* faulty variant of CurrentHashes: the map is keyed by the paragraph's first
\* line instead of its ordinal
CurrentHashes_ByStartLine(paragraphs) ==
    [i \in {paragraphs[k].startLine : k \in DOMAIN paragraphs} |->
        hashParagraph((CHOOSE p \in {paragraphs[k] : k \in DOMAIN paragraphs} :
                           p.startLine = i).text)]

\* "for (let i = 0; ...) currentHashes.set(i, hash)"
CurrentHashes(paragraphs) ==
    [i \in 0..(Len(paragraphs) - 1) |-> hashParagraph(paragraphs[i + 1].text)]

\* Map.get: undefined when the key is absent
MapGet(m, k) == IF k \in DOMAIN m THEN m[k] ELSE <<"undefined">>

\* changedParagraphIndices, in the loop's (increasing) order
RECURSIVE ChangedFrom(_, _, _)
ChangedFrom(docCache, currentHashes, i) ==
    IF i \notin DOMAIN currentHashes THEN <<>>
    ELSE (IF MapGet(docCache.paragraphHashes, i) # currentHashes[i] THEN <<i>> ELSE <<>>)
         \o ChangedFrom(docCache, currentHashes, i + 1)

ChangedParagraphIndices(docCache, currentHashes) ==
    ChangedFrom(docCache, currentHashes, 0)

\* faulty variants of ParagraphCountChanged: the size of the wrong collection is
\* compared; only a growing paragraph count is noticed
ParagraphCountChanged_ByResults(docCache, paragraphs) ==
    Len(docCache.results) # Len(paragraphs)

ParagraphCountChanged_OnlyGrowth(docCache, paragraphs) ==
    Cardinality(DOMAIN docCache.paragraphHashes) < Len(paragraphs)

\* "docCache.paragraphHashes.size !== context.paragraphs.length"
ParagraphCountChanged(docCache, paragraphs) ==
    Cardinality(DOMAIN docCache.paragraphHashes) # Len(paragraphs)

\* runFullCheck: every enabled module's check over the context; the registry
\* registers the duplicate-word checker
runFullCheck(paragraphs, document, st) ==
    IF st.enabled THEN check(paragraphs, document, st) ELSE <<>>

\* runIncrementalCheck: the context filtered to the changed paragraphs
runIncrementalCheck(paragraphs, document, st, paragraphIndices) ==
    LET filtered == [k \in DOMAIN paragraphIndices |-> paragraphs[paragraphIndices[k] + 1]]
    IN  IF st.enabled THEN check(filtered, document, st) ELSE <<>>

\* faulty variant of UnchangedResults: the filter's negation is lost
UnchangedResults_Inverted(results, paragraphs, changedParagraphIndices) ==
    SelectSeq(results, LAMBDA result :
        \E k \in DOMAIN changedParagraphIndices :
            LET para == paragraphs[changedParagraphIndices[k] + 1]
            IN  result.line >= para.startLine /\ result.line <= para.endLine)

\* "Remove old results for changed paragraphs"
UnchangedResults(results, paragraphs, changedParagraphIndices) ==
    SelectSeq(results, LAMBDA result :
        ~\E k \in DOMAIN changedParagraphIndices :
            LET para == paragraphs[changedParagraphIndices[k] + 1]
            IN  result.line >= para.startLine /\ result.line <= para.endLine)

\* the three branches of runChecks, given what the code has computed when it
\* reaches them.  The outcome records the branch taken, the entry left in the
\* cache, the paragraph ordinals handed to the modules and whether
\* applyDecorations was called.
RunChecksBranches(paragraphs, document, docCache, st, currentHashes, changedParagraphIndices) ==
    IF ParagraphCountChanged(docCache, paragraphs)
    THEN [branch |-> "full",
          entry |-> [paragraphHashes |-> currentHashes,
                     results |-> runFullCheck(paragraphs, document, st)],
          checked |-> [k \in 1..Len(paragraphs) |-> k - 1],
          changed |-> changedParagraphIndices,
          decorated |-> TRUE]
    ELSE IF Len(changedParagraphIndices) > 0
    THEN [branch |-> "incremental",
          entry |-> [paragraphHashes |-> currentHashes,
                     results |->
                         UnchangedResults(docCache.results, paragraphs,
                                          changedParagraphIndices)
                         \o runIncrementalCheck(paragraphs, document, st,
                                                changedParagraphIndices)],
          checked |-> changedParagraphIndices,
          changed |-> changedParagraphIndices,
          decorated |-> TRUE]
    ELSE [branch |-> "noop",
          entry |-> docCache,
          checked |-> <<>>,
          changed |-> changedParagraphIndices,
          decorated |-> FALSE]

\* "Get or create cache for this document"
GetOrCreateCache(entry) == IF entry = NoCache THEN EmptyCache ELSE entry

\* runChecks on a document whose paragraphs are `paragraphs`, with the cache
\* entry `entry` (NoCache when the uri has none)
RunChecksParsed(paragraphs, document, entry, st) ==
    RunChecksBranches(paragraphs, document, GetOrCreateCache(entry), st,
                      CurrentHashes(paragraphs),
                      ChangedParagraphIndices(GetOrCreateCache(entry),
                                              CurrentHashes(paragraphs)))

RunChecksOutcome(document, entry, st) ==
    RunChecksParsed(parseDocument(document), document, entry, st)

-----------------------------------------------------------------------------
(* Bounds and inputs *)

\* the longest document of the analyzer runs, and the number of changes made
\* around the passes (edits, configuration changes, cache clears)
MaxLines == 3
MaxEdits == 2
\* the longest document of the detector runs
MaxCheckLines == 3

SeqsUpTo(S, n) == UNION {[1..k -> S] : k \in 0..n}

DupDup == <<"dup", " ", "dup">>
DupWord == <<"dup", " ", "word">>
BlankLine == <<>>
CommentDup == <<"%", " ", "dup">>

\* the lines an edit can write
EditLines == {DupDup, DupWord, BlankLine, CommentDup}

\* the documents open when the extension starts
StartDocs == {<<>>, <<DupDup>>, <<DupDup, BlankLine, DupWord>>}

\* the module settings loadConfiguration can hand to Executor.configure
SettingsOptions ==
    {DefaultSettings,
     [DefaultSettings EXCEPT !.excludeWords.global = @ \cup {"dup"}],
     [DefaultSettings EXCEPT !.excludeWords.project = {"word"}],
     [DefaultSettings EXCEPT !.enabled = FALSE],
     [DefaultSettings EXCEPT !.scope = "line"]}

-----------------------------------------------------------------------------
(* The analyzer runs: documents are edited, the configuration changes, the   *)
(* cache is cleared, runChecks is called (timer tick or command).            *)

NoPass == [kind |-> "none"]

ExecInit ==
    /\ NoExtension
    /\ docs \in [{"a.tex"} -> StartDocs]
    /\ cache = [u \in DOMAIN docs |-> NoCache]
    /\ settings = DefaultSettings
    /\ pass = NoPass
    /\ since = [u \in DOMAIN docs |-> {"new"}]
    /\ edits = 0
    /\ chkDoc = <<>>
    /\ chkParas = <<>>
    /\ chkDups = <<>>
    /\ chkResults = <<>>
    /\ chkPc = "idle"

\* the host replaces line i of the document
ReplaceLine(u, i, l) ==
    /\ edits < MaxEdits
    /\ i \in 1..Len(docs[u])
    /\ docs[u][i] # l
    /\ docs' = [docs EXCEPT ![u][i] = l]
    /\ since' = [since EXCEPT ![u] = @ \cup {"edit"}]
    /\ edits' = edits + 1
    /\ pass' = NoPass
    /\ UNCHANGED <<extVars, cache, settings, chkVars>>

\* the host inserts a line before line i (i = Len + 1: appends)
InsertLine(u, i, l) ==
    /\ edits < MaxEdits
    /\ Len(docs[u]) < MaxLines
    /\ i \in 1..(Len(docs[u]) + 1)
    /\ docs' = [docs EXCEPT ![u] = SubSeq(@, 1, i - 1) \o <<l>> \o SubSeq(@, i, Len(@))]
    /\ since' = [since EXCEPT ![u] = @ \cup {"edit"}]
    /\ edits' = edits + 1
    /\ pass' = NoPass
    /\ UNCHANGED <<extVars, cache, settings, chkVars>>

\* the host deletes line i
DeleteLine(u, i) ==
    /\ edits < MaxEdits
    /\ i \in 1..Len(docs[u])
    /\ docs' = [docs EXCEPT ![u] = SubSeq(@, 1, i - 1) \o SubSeq(@, i + 1, Len(@))]
    /\ since' = [since EXCEPT ![u] = @ \cup {"edit"}]
    /\ edits' = edits + 1
    /\ pass' = NoPass
    /\ UNCHANGED <<extVars, cache, settings, chkVars>>

\* DuplicateWordChecker.configure: { ...this.settings, ...settings }, then
\* this.enabled = this.settings.enabled
ConfigureModule(st, moduleSettings) ==
    [f \in DOMAIN st \cup DOMAIN moduleSettings |->
        IF f \in DOMAIN moduleSettings THEN moduleSettings[f] ELSE st[f]]

\* Executor.configure with settings for the duplicate-word module
Configure(moduleSettings) ==
    /\ edits < MaxEdits
    /\ ConfigureModule(settings, moduleSettings) # settings
    /\ settings' = ConfigureModule(settings, moduleSettings)
    /\ since' = [u \in DOMAIN since |-> since[u] \cup {"config"}]
    /\ edits' = edits + 1
    /\ pass' = NoPass
    /\ UNCHANGED <<extVars, docs, cache, chkVars>>

\* the effect of a pass with outcome `out` on the cache (and on the history)
RecordPass(u, out) ==
    /\ cache' = [cache EXCEPT ![u] = out.entry]
    /\ pass' = [kind |-> "run", uri |-> u, branch |-> out.branch,
                checked |-> out.checked, changed |-> out.changed,
                decorated |-> out.decorated,
                before |-> cache[u], since |-> since[u]]
    /\ since' = [since EXCEPT ![u] = {}]
    /\ UNCHANGED <<extVars, docs, settings, edits, chkVars>>

\* Executor.runChecks(editor) for the editor of document u
RunChecks(u) == RecordPass(u, RunChecksOutcome(docs[u], cache[u], settings))

\* faulty variant of ClearCache: cache.clear() is called whatever the argument
ClearCache_Everything(u) ==
    /\ edits < MaxEdits
    /\ cache[u] # NoCache
    /\ cache' = [v \in DOMAIN cache |-> NoCache]
    /\ since' = [since EXCEPT ![u] = @ \cup {"clear"}]
    /\ edits' = edits + 1
    /\ pass' = NoPass
    /\ UNCHANGED <<extVars, docs, settings, chkVars>>

\* Executor.clearCache(documentUri)
ClearCache(u) ==
    /\ edits < MaxEdits
    /\ cache[u] # NoCache
    /\ cache' = [cache EXCEPT ![u] = NoCache]
    /\ since' = [since EXCEPT ![u] = @ \cup {"clear"}]
    /\ edits' = edits + 1
    /\ pass' = NoPass
    /\ UNCHANGED <<extVars, docs, settings, chkVars>>

Next ==
    \/ \E u \in DOMAIN docs, i \in 1..MaxLines, l \in EditLines : ReplaceLine(u, i, l)
    \/ \E u \in DOMAIN docs, i \in 1..(MaxLines + 1), l \in EditLines : InsertLine(u, i, l)
    \/ \E u \in DOMAIN docs, i \in 1..MaxLines : DeleteLine(u, i)
    \/ \E ms \in SettingsOptions : Configure(ms)
    \/ \E u \in DOMAIN docs : RunChecks(u)
    \/ \E u \in DOMAIN docs : ClearCache(u)

Spec == ExecInit /\ [][Next]_vars

-----------------------------------------------------------------------------
(* The detector runs: one document is segmented and checked under one        *)
(* configuration.                                                            *)

DupDupWord == <<"Dup", " ", "dup", " ", "word">>
TheTheDup == <<"the", " ", "the", " ", "dup">>
BoldDupDup == <<BS, "textbf", "{", "dup", " ", "dup", "}">>
BoldDupDupEmph ==
    <<BS, "textbf", "{", "dup", " ", "dup", "}", " ", BS, "emph", "{", "word", "}">>
CiteDupDupDup == <<BS, "cite", "{", "dup", "}", " ", "dup", " ", "dup">>

\* the lines of the documents checked
CheckLines ==
    {DupDupWord, DupWord, BlankLine, TheTheDup, BoldDupDup, BoldDupDupEmph,
     CiteDupDupDup}

CheckInit ==
    /\ NoExtension
    /\ chkDoc \in SeqsUpTo(CheckLines, MaxCheckLines)
    /\ settings \in SettingsOptions
    /\ chkParas = <<>>
    /\ chkDups = <<>>
    /\ chkResults = <<>>
    /\ chkPc = "ready"
    /\ docs = <<>>
    /\ cache = <<>>
    /\ pass = NoPass
    /\ since = <<>>
    /\ edits = 0

\* what parseDocument and the module's check compute for the document
RecordCheck(paragraphs) ==
    /\ chkParas' = paragraphs
    /\ chkDups' = [k \in DOMAIN paragraphs |->
                      findDuplicatesInText(paragraphs[k].text, settings)]
    /\ chkResults' = check(paragraphs, chkDoc, settings)
    /\ chkPc' = "checked"
    /\ UNCHANGED <<extVars, chkDoc, settings, execVars>>

\* DocumentParser.parseDocument, then DuplicateWordChecker.check(context)
CheckDocument ==
    /\ chkPc = "ready"
    /\ RecordCheck(parseDocument(chkDoc))

SpecCheck == CheckInit /\ [][CheckDocument]_vars

-----------------------------------------------------------------------------
(* Properties of the analyzer runs (specification Spec) *)

\* the document, its paragraphs and the cache entry of the pass just made
PassDoc == docs[pass.uri]
PassParagraphs == parseDocument(PassDoc)
PassBefore == IF pass.before = NoCache THEN EmptyCache ELSE pass.before
PassAfter == cache[pass.uri]

\* the ordinals 0..n-1 of a list of n paragraphs
Ordinals(paragraphs) == [k \in 1..Len(paragraphs) |-> k - 1]

\* the number of fingerprints cached before the pass differs from the number
\* of paragraphs the pass found
PassCountDiffers ==
    Cardinality(DOMAIN PassBefore.paragraphHashes) # Len(PassParagraphs)

\* the ordinals whose fingerprint before the pass differs from the digest of
\* the paragraph's text now (meaningful when the count did not change)
PassDiffering ==
    {i \in 0..(Len(PassParagraphs) - 1) :
        MapGet(PassBefore.paragraphHashes, i)
            # hashParagraph(PassParagraphs[i + 1].text)}

\* what a full check of the current document returns under the current settings
FullResultsNow(u) == runFullCheck(parseDocument(docs[u]), docs[u], settings)

\* C1: a pass that directly follows a pass on the same document, with no edit,
\* no configuration change and no cache clear in between, is a no-op: the
\* cache entry (fingerprints and results) is what it was, no module ran and
\* no decoration was applied.
C1_SecondPassIsNoOp ==
    (pass.kind = "run" /\ pass.since = {}) =>
        /\ pass.branch = "noop"
        /\ PassAfter = pass.before
        /\ pass.checked = <<>>
        /\ ~pass.decorated

\* a second pass in a row on a document that has cached results
C1_Witness ==
    /\ pass.kind = "run"
    /\ pass.since = {}
    /\ pass.before # NoCache
    /\ pass.before.results # <<>>

\* C2: the first pass after a configuration change, on a document that has a
\* cache entry and was not edited, leaves the results a full check returns
\* under the new configuration.
C2_ConfigChangeIsFullRecheck ==
    (pass.kind = "run" /\ pass.since = {"config"}) =>
        PassAfter.results = FullResultsNow(pass.uri)

\* C3: when the paragraph count differs from the number of cached
\* fingerprints, the pass takes the full branch, hands every paragraph to the
\* modules and replaces fingerprints and results by the freshly computed ones.
C3_CountChangeIsFullRecheck ==
    (pass.kind = "run" /\ PassCountDiffers) =>
        /\ pass.branch = "full"
        /\ pass.checked = Ordinals(PassParagraphs)
        /\ PassAfter.paragraphHashes = CurrentHashes(PassParagraphs)
        /\ PassAfter.results = FullResultsNow(pass.uri)

\* a pass on a document with cached results whose paragraph count has changed
C3_Witness ==
    /\ pass.kind = "run"
    /\ pass.before # NoCache
    /\ pass.before.results # <<>>
    /\ PassCountDiffers
    /\ Len(PassParagraphs) > 0

\* the results of a list that lie outside the line range of a paragraph
OutsideParagraph(results, para) ==
    SelectSeq(results, LAMBDA r : r.line < para.startLine \/ r.line > para.endLine)

\* C4: when the count is unchanged and exactly one paragraph k has a new
\* fingerprint, the modules are handed paragraph k only and the results
\* outside the line range of paragraph k are those cached before, unchanged
\* and in the same order.
C4_IncrementalKeepsOutside ==
    (pass.kind = "run" /\ ~PassCountDiffers /\ Cardinality(PassDiffering) = 1) =>
        LET k == CHOOSE i \in PassDiffering : TRUE
            para == PassParagraphs[k + 1]
        IN  /\ pass.branch = "incremental"
            /\ pass.checked = <<k>>
            /\ OutsideParagraph(PassAfter.results, para)
                   = OutsideParagraph(PassBefore.results, para)

\* an incremental pass on one paragraph, with cached results in another one
C4_Witness ==
    /\ pass.kind = "run"
    /\ ~PassCountDiffers
    /\ Cardinality(PassDiffering) = 1
    /\ LET k == CHOOSE i \in PassDiffering : TRUE
       IN  OutsideParagraph(PassBefore.results, PassParagraphs[k + 1]) # <<>>

-----------------------------------------------------------------------------
(* Properties of the detector runs (specification SpecCheck) *)

Range(f) == {f[x] : x \in DOMAIN f}

Checked == chkPc = "checked"

\* the lines (zero-based) of a paragraph's range
ParagraphLines(p) == p.startLine..p.endLine

\* how often the token t occurs, compared case-insensitively, among the words
\* of a text
TokenCount(text, t) ==
    Cardinality({k \in DOMAIN WordRuns(text) : LowerRunText(text, WordRuns(text)[k]) = t})

TokenSet(text) == {LowerRunText(text, WordRuns(text)[k]) : k \in DOMAIN WordRuns(text)}

\* the token a result was reported for
ResultToken(r) == Lower(r.text)

\* the span of the word run r of line i of the checked document
SpanOf(i, r) ==
    LET lineText == chkDoc[i + 1]
        col == CharLen(SubSeq(lineText, 1, r.from - 1))
    IN  [line |-> i, startChar |-> col,
         endChar |-> col + CharLen(SubSeq(lineText, r.from, r.to)),
         text |-> RunText(lineText, r)]

\* the span a result covers
ResultSpan(r) ==
    [line |-> r.line, startChar |-> r.startChar, endChar |-> r.endChar, text |-> r.text]

\* the word run of line i that starts at column col
RunsAtColumn(i, col) ==
    {r \in Range(WordRuns(chkDoc[i + 1])) :
        CharLen(SubSeq(chkDoc[i + 1], 1, r.from - 1)) = col}

C6_DuplicateIffRepeatedInParagraph ==
    Checked =>
        /\ \A k \in DOMAIN chkParas :
               \A t \in UNION {TokenSet(chkParas[m].text) : m \in DOMAIN chkParas}
                        \cup Range(chkDups[k]) :
                   t \in Range(chkDups[k])
                       <=> /\ t \notin getExcludedWords(settings)
                           /\ TokenCount(chkParas[k].text, t) >= 2
        /\ \A j \in DOMAIN chkResults : \E k \in DOMAIN chkParas :
               /\ chkResults[j].line \in ParagraphLines(chkParas[k])
               /\ TokenCount(chkParas[k].text, ResultToken(chkResults[j])) >= 2

\* a token that occurs exactly once in each of two paragraphs, with mixed case
\* duplicates reported elsewhere in the document
C6_Witness ==
    /\ Checked
    /\ \E k1, k2 \in DOMAIN chkParas :
           /\ k1 # k2
           /\ \E t \in TokenSet(chkParas[k1].text) \ getExcludedWords(settings) :
                  /\ TokenCount(chkParas[k1].text, t) = 1
                  /\ TokenCount(chkParas[k2].text, t) = 1
    /\ \E k \in DOMAIN chkParas : chkDups[k] # <<>>

\* C7: with scope "line" a token is reported only if it occurs at least twice
\* on one single line of its paragraph.
C7_LineScopeNeedsSameLine ==
    (Checked /\ settings.scope = "line") =>
        \A j \in DOMAIN chkResults : \E k \in DOMAIN chkParas :
            /\ chkResults[j].line \in ParagraphLines(chkParas[k])
            /\ \E i \in ParagraphLines(chkParas[k]) :
                   TokenCount(preprocessLatexLine(chkDoc[i + 1]),
                              ResultToken(chkResults[j])) >= 2

\* a line of plain prose: words, spaces and full stops only
IsPlainLine(lineText) ==
    \A k \in DOMAIN lineText : lineText[k] \notin {BS, "{", "}", "%", "$", "*"}

IsPlainParagraph(p) == \A i \in ParagraphLines(p) : IsPlainLine(chkDoc[i + 1])

\* the spans of all whole-word occurrences, on the lines of paragraph p, of
\* the tokens that occur at least twice on these lines and are not excluded
PlainOccurrences(p) ==
    LET occ == {ir \in UNION {{<<i, r>> : r \in Range(WordRuns(chkDoc[i + 1]))} :
                                 i \in ParagraphLines(p)} : TRUE}
        token(ir) == LowerRunText(chkDoc[ir[1] + 1], ir[2])
        dup(ir) == /\ token(ir) \notin getExcludedWords(settings)
                   /\ Cardinality({o \in occ : token(o) = token(ir)}) >= 2
    IN  {SpanOf(ir[1], ir[2]) : ir \in {o \in occ : dup(o)}}

\* C8: for a paragraph of plain prose lines, the results on its lines are
\* exactly the occurrences of its duplicate tokens, one result each, with the
\* line and the column span of the occurrence.
C8_PlainProseOccurrences ==
    Checked =>
        \A k \in DOMAIN chkParas :
            IsPlainParagraph(chkParas[k]) =>
                LET here == {j \in DOMAIN chkResults :
                                chkResults[j].line \in ParagraphLines(chkParas[k])}
                IN  /\ {ResultSpan(chkResults[j]) : j \in here}
                           = PlainOccurrences(chkParas[k])
                    /\ \A j1, j2 \in here :
                           ResultSpan(chkResults[j1]) = ResultSpan(chkResults[j2])
                               => j1 = j2

\* a plain paragraph of two lines with a token repeated on one line, in mixed
\* case, and once more on the other line
C8_Witness ==
    /\ Checked
    /\ \E k \in DOMAIN chkParas :
           /\ IsPlainParagraph(chkParas[k])
           /\ chkParas[k].endLine > chkParas[k].startLine
           /\ \E j1, j2, j3 \in DOMAIN chkResults :
                  /\ chkResults[j1].line = chkParas[k].startLine
                  /\ chkResults[j2].line = chkParas[k].startLine
                  /\ chkResults[j1].text # chkResults[j2].text
                  /\ chkResults[j3].line = chkParas[k].endLine

\* the word run r of lineText stands inside the braces of one of the commands:
\* \name{ precedes it with no closing brace in between
InsideBracesOf(lineText, r, commands) ==
    \E b \in 3..(r.from - 1) :
        /\ lineText[b] = "{"
        /\ lineText[b - 1] \in commands
        /\ lineText[b - 2] = BS
        /\ \A m \in (b + 1)..(r.from - 1) : lineText[m] # "}"

\* C9: every occurrence of a duplicate token inside the braces of a
\* text-formatting command is reported, whatever else stands on the line.
C9_FormattedProseReported ==
    Checked =>
        \A k \in DOMAIN chkParas : \A i \in ParagraphLines(chkParas[k]) :
            \A r \in Range(WordRuns(chkDoc[i + 1])) :
                (/\ InsideBracesOf(chkDoc[i + 1], r, FormatCommands)
                 /\ LowerRunText(chkDoc[i + 1], r) \in Range(chkDups[k]))
                    => \E j \in DOMAIN chkResults :
                           ResultSpan(chkResults[j]) = SpanOf(i, r)

\* C10: no result is located inside the braced argument of a citation,
\* reference or label command (the commands whose argument is no prose).
C10_NoResultInsideCitation ==
    Checked =>
        \A j \in DOMAIN chkResults :
            \A r \in RunsAtColumn(chkResults[j].line, chkResults[j].startChar) :
                ~InsideBracesOf(chkDoc[chkResults[j].line + 1], r,
                                CiteCommands \cup RefCommands)

\* the ordinal (one-based) of the paragraph whose range holds the line
ParagraphOf(line) ==
    CHOOSE k \in DOMAIN chkParas : line \in ParagraphLines(chkParas[k])

\* the position of the first word of the text that is the token t
FirstAppearance(text, t) ==
    CHOOSE n \in DOMAIN WordRuns(text) :
        /\ LowerRunText(text, WordRuns(text)[n]) = t
        /\ \A m \in 1..(n - 1) : LowerRunText(text, WordRuns(text)[m]) # t

\* paragraph, first appearance of the token in the paragraph's text, line,
\* column
OrderKey(r) ==
    <<ParagraphOf(r.line),
      FirstAppearance(chkParas[ParagraphOf(r.line)].text, ResultToken(r)),
      r.line, r.startChar>>

LexLess(a, b) ==
    \E n \in 1..4 : a[n] < b[n] /\ \A m \in 1..(n - 1) : a[m] = b[m]

\* C24: the list returned by check is in strictly increasing order of
\* (paragraph, first appearance of the token in the paragraph's flattened
\* text, line, column), so the list is fixed by the document and the
\* configuration.
C24_ResultsInDiscoveryOrder ==
    Checked =>
        \A j1, j2 \in DOMAIN chkResults :
            j1 < j2 => LexLess(OrderKey(chkResults[j1]), OrderKey(chkResults[j2]))

\* a paragraph with two duplicate tokens: all results of the token found
\* first come before those of the other token, also those on a later line
C24_Witness ==
    /\ Checked
    /\ \E j1, j2 \in DOMAIN chkResults :
           /\ j1 < j2
           /\ ParagraphOf(chkResults[j1].line) = ParagraphOf(chkResults[j2].line)
           /\ ResultToken(chkResults[j1]) # ResultToken(chkResults[j2])
           /\ chkResults[j1].line > chkResults[j2].line

-----------------------------------------------------------------------------
(* The detector runs on lines with inline markup: citations, references,     *)
(* inline math, trailing comments, command names, environment names and      *)
(* sectioning commands.                                                      *)

\* the longest document of the inline-markup runs
MaxMarkupLines == 2

AutociteDupDup == <<BS, "autocite", "{", "dup", "}", " ", "dup">>
CiteDupWord == <<BS, "cite", "{", "dup", "}", " ", "dup", " ", "word">>
LabelWordRefDup ==
    <<BS, "label", "{", "word", "}", " ", "word", " ", BS, "ref", "{", "dup", "}">>
MathDupDupDup == <<"$", "dup", "$", " ", "dup", " ", "dup">>
DupDupCommentDup == <<"dup", " ", "dup", " ", "%", " ", "dup">>
DupPercentDupCommentDup ==
    <<"dup", " ", BS, "%", " ", "dup", " ", "%", " ", "dup">>
CommandNamesDup ==
    <<BS, "dup", " ", BS, "begin", "{", "dup", "}", " ",
      BS, "end", "{", "dup", "}", " ", "dup", " ", "dup">>
SectionDupDup == <<BS, "section", "*", "{", "Dup", " ", "dup", "}">>
ParagraphDupDup == <<BS, "paragraph", "{", "dup", " ", "dup", "}">>
SubparagraphWordWord == <<BS, "subparagraph", "{", "word", " ", "word", "}">>
DupParDup == <<"dup", " ", BS, "par", " ", "dup">>
DupDupCommentPar == <<"dup", " ", "dup", " ", "%", " ", BS, "par">>

\* the lines of the documents checked
MarkupLines ==
    {DupWord, AutociteDupDup, CiteDupWord, LabelWordRefDup, MathDupDupDup,
     DupDupCommentDup, DupPercentDupCommentDup, CommandNamesDup, SectionDupDup,
     ParagraphDupDup, SubparagraphWordWord, BlankLine, DupParDup,
     DupDupCommentPar}

MarkupInit ==
    /\ NoExtension
    /\ chkDoc \in SeqsUpTo(MarkupLines, MaxMarkupLines)
    /\ settings = DefaultSettings
    /\ chkParas = <<>>
    /\ chkDups = <<>>
    /\ chkResults = <<>>
    /\ chkPc = "ready"
    /\ docs = <<>>
    /\ cache = <<>>
    /\ pass = NoPass
    /\ since = <<>>
    /\ edits = 0

SpecMarkup == MarkupInit /\ [][CheckDocument]_vars

-----------------------------------------------------------------------------
(* Properties of the detector runs on inline markup (specification           *)
(* SpecMarkup)                                                               *)

\* the commands whose braced argument is a key, not prose: citations,
\* references and labels
KeyCommands == {"cite", "autocite", "label", "ref", "pageref", "eqref"}

\* the names of the commands used on a line
CommandsOn(lineText) ==
    {lineText[i + 1] : i \in {m \in 1..(Len(lineText) - 1) : lineText[m] = BS}}

\* a line of prose whose only markup is citations, references and labels
IsProseWithKeys(lineText) ==
    /\ CommandsOn(lineText) \subseteq KeyCommands
    /\ \A m \in DOMAIN lineText : lineText[m] \notin {"%", "$", "*"}

\* the words of a line that are prose: neither a command name nor inside the
\* braced argument of a citation, reference or label command
ProseRuns(lineText) ==
    {r \in Range(WordRuns(lineText)) :
        /\ ~(r.from > 1 /\ lineText[r.from - 1] = BS)
        /\ ~InsideBracesOf(lineText, r, KeyCommands)}

\* how often the token t occurs in the prose of the lines of paragraph p
ProseCount(p, t) ==
    Cardinality({ir \in UNION {{<<i, r>> : r \in ProseRuns(chkDoc[i + 1])} :
                                  i \in ParagraphLines(p)} :
                    LowerRunText(chkDoc[ir[1] + 1], ir[2]) = t})

\* C11: in a paragraph whose only markup is citation, reference and label
\* commands, the duplicates are exactly the tokens outside the exclusion
\* vocabulary that occur at least twice in the prose; the tokens inside the
\* braced arguments of these commands are not counted.
C11_KeysNotCounted ==
    Checked =>
        \A k \in DOMAIN chkParas :
            (\A i \in ParagraphLines(chkParas[k]) : IsProseWithKeys(chkDoc[i + 1]))
                => \A t \in {"dup", "word"} :
                       t \in Range(chkDups[k]) <=> ProseCount(chkParas[k], t) >= 2

\* the word run r of lineText stands between two dollar signs that
\* preprocessLatexLine pairs up as an inline math span
RECURSIVE InMathSpanFrom(_, _, _)
InMathSpanFrom(lineText, r, i) ==
    LET open == IndexOfFrom(lineText, "$", i)
        close == IF open = 0 THEN 0 ELSE IndexOfFrom(lineText, "$", open + 1)
    IN  IF open = 0 \/ close = 0 THEN FALSE
        ELSE \/ (open < r.from /\ r.to < close)
             \/ InMathSpanFrom(lineText, r, close + 1)

\* C12: no result is located on text inside a math span $...$ of a line.
C12_NoResultInsideMath ==
    Checked =>
        \A j \in DOMAIN chkResults :
            \A r \in RunsAtColumn(chkResults[j].line, chkResults[j].startChar) :
                ~InMathSpanFrom(chkDoc[chkResults[j].line + 1], r, 1)

\* an unescaped comment marker stands before lexeme `from` of the line
CommentMarkerBefore(lineText, from) ==
    \E m \in 1..(from - 1) :
        lineText[m] = "%" /\ ~(m > 1 /\ lineText[m - 1] = BS)

\* C18: no result is produced for a match that has an unescaped comment
\* marker earlier on its line.
C18_NoResultAfterCommentMarker ==
    Checked =>
        \A j \in DOMAIN chkResults :
            \A r \in RunsAtColumn(chkResults[j].line, chkResults[j].startChar) :
                ~CommentMarkerBefore(chkDoc[chkResults[j].line + 1], r.from)

\* C19: no result is located on a match that is immediately preceded by a
\* backslash or that lies inside the name argument of a \begin{...} or
\* \end{...} marker of its line.
C19_NoResultOnCommandOrEnvironmentName ==
    Checked =>
        \A j \in DOMAIN chkResults :
            \A r \in RunsAtColumn(chkResults[j].line, chkResults[j].startChar) :
                LET lineText == chkDoc[chkResults[j].line + 1]
                IN  /\ ~(r.from > 1 /\ lineText[r.from - 1] = BS)
                    /\ ~InsideBracesOf(lineText, r, {"begin", "end"})

\* results are reported on a line on which the reported token is also a
\* command name, the name of a \begin marker and the name of an \end marker
C19_Witness ==
    /\ Checked
    /\ \E j \in DOMAIN chkResults :
           LET lineText == chkDoc[chkResults[j].line + 1]
               same == {r \in Range(WordRuns(lineText)) :
                           LowerRunText(lineText, r) = ResultToken(chkResults[j])}
           IN  /\ \E r \in same : r.from > 1 /\ lineText[r.from - 1] = BS
               /\ \E r \in same : InsideBracesOf(lineText, r, {"begin"})
               /\ \E r \in same : InsideBracesOf(lineText, r, {"end"})

\* the sectioning commands
SectioningNames ==
    {"chapter", "section", "subsection", "subsubsection", "paragraph", "subparagraph"}

\* a line that is one sectioning command with its title, starred or not
IsSectionLine(lineText) ==
    /\ Len(lineText) >= 5
    /\ lineText[1] = BS
    /\ lineText[2] \in SectioningNames
    /\ lineText[3] = "{" \/ (lineText[3] = "*" /\ lineText[4] = "{")
    /\ lineText[Len(lineText)] = "}"
    /\ \A m \in 4..(Len(lineText) - 1) : lineText[m] \notin {BS, "}", "%", "$"}

TitleOf(lineText) ==
    SubSeq(lineText, IF lineText[3] = "{" THEN 4 ELSE 5, Len(lineText) - 1)

\* C20: the title of every sectioning command is part of the flattened text
\* of a paragraph that covers the command's line, and a token repeated in the
\* title is a duplicate of that paragraph.
C20_SectionTitleIsChecked ==
    Checked =>
        \A i \in 0..(Len(chkDoc) - 1) :
            IsSectionLine(chkDoc[i + 1]) =>
                \E k \in DOMAIN chkParas :
                    /\ i \in ParagraphLines(chkParas[k])
                    /\ Includes(chkParas[k].text, TitleOf(chkDoc[i + 1]))
                    /\ \A t \in TokenSet(TitleOf(chkDoc[i + 1])) :
                           (/\ t \notin getExcludedWords(settings)
                            /\ TokenCount(TitleOf(chkDoc[i + 1]), t) >= 2)
                               => t \in Range(chkDups[k])

\* the explicit paragraph-break marker \par stands on the line
HasParMarker(lineText) ==
    \E m \in 1..(Len(lineText) - 1) : lineText[m] = BS /\ lineText[m + 1] = "par"

\* C21: a content line closes the current paragraph exactly when its
\* rewritten form is blank or still contains \par; every other content line
\* is appended, under its own line number, to a paragraph.
C21_BreakIffBlankOrParMarker ==
    Checked =>
        \A i \in 0..(Len(chkDoc) - 1) :
            LET rewritten == preprocessLatexLine(chkDoc[i + 1])
                closes == Trim(rewritten) = <<>> \/ HasParMarker(rewritten)
            IN  IF closes
                THEN \A k \in DOMAIN chkParas : i \notin ParagraphLines(chkParas[k])
                ELSE \E k \in DOMAIN chkParas :
                         /\ i \in ParagraphLines(chkParas[k])
                         /\ Includes(chkParas[k].text, Trim(rewritten))

-----------------------------------------------------------------------------
(* The detector runs on documents with environments and comment lines.      *)

\* the longest document of the environment runs
MaxRegionLines == 3

BeginEquationStar == <<BS, "begin", "{", "equation", "*", "}">>
EndEquationStar == <<BS, "end", "{", "equation", "*", "}">>
BeginTable == <<BS, "begin", "{", "table", "}">>
EndTable == <<BS, "end", "{", "table", "}">>
BeginBibliography == <<BS, "begin", "{", "thebibliography", "}">>
EndBibliography == <<BS, "end", "{", "thebibliography", "}">>
CommentBeginEquation == <<"%", " ", BS, "begin", "{", "equation", "*", "}">>
AlignDupDup ==
    <<BS, "begin", "{", "align", "}", " ", "dup", " ", "dup", " ",
      BS, "end", "{", "align", "}">>

\* the lines of the documents checked
RegionLines ==
    {DupDup, BlankLine, CommentDup, CommentBeginEquation,
     BeginEquationStar, EndEquationStar, BeginTable, EndTable,
     BeginBibliography, EndBibliography, AlignDupDup}

RegionInit ==
    /\ NoExtension
    /\ chkDoc \in SeqsUpTo(RegionLines, MaxRegionLines)
    /\ settings = DefaultSettings
    /\ chkParas = <<>>
    /\ chkDups = <<>>
    /\ chkResults = <<>>
    /\ chkPc = "ready"
    /\ docs = <<>>
    /\ cache = <<>>
    /\ pass = NoPass
    /\ since = <<>>
    /\ edits = 0

SpecRegions == RegionInit /\ [][CheckDocument]_vars

-----------------------------------------------------------------------------
(* Properties of the detector runs on environments (specification           *)
(* SpecRegions)                                                              *)

\* the begin or end markers of the math, bibliography and table environments
MathMarkers(marker) ==
    UNION {{<<BS, marker, "{", e, "}">>, <<BS, marker, "{", e, "*", "}">>} :
              e \in {"equation", "align", "gather", "multline", "flalign", "alignat"}}

BibMarkers(marker) ==
    {<<BS, marker, "{", e, "}">> : e \in {"bibliography", "thebibliography"}}

TableMarkers(marker) ==
    UNION {{<<BS, marker, "{", e, "}">>, <<BS, marker, "{", e, "*", "}">>} :
              e \in {"table"}}

HasMarker(lineText, markers) == \E p \in markers : Includes(lineText, p)

\* line i (zero-based) lies between a line with one of the begin markers and
\* the first line with one of the end markers at or after it, both included
InRegion(i, begins, ends) ==
    \E b \in 0..i :
        /\ HasMarker(chkDoc[b + 1], begins)
        /\ \A m \in b..(i - 1) : ~HasMarker(chkDoc[m + 1], ends)

InBibliography(i) == InRegion(i, BibMarkers("begin"), BibMarkers("end"))

\* a math environment is one whose begin marker is not itself bibliography
\* content
InMathEnvironment(i) ==
    \E b \in 0..i :
        /\ HasMarker(chkDoc[b + 1], MathMarkers("begin"))
        /\ ~InBibliography(b)
        /\ \A m \in b..(i - 1) : ~HasMarker(chkDoc[m + 1], MathMarkers("end"))

InTable(i) == InRegion(i, TableMarkers("begin"), TableMarkers("end"))

LineNumbers == 0..(Len(chkDoc) - 1)

\* line i lies in the range of no paragraph and carries no result
OutsideEverything(i) ==
    /\ \A k \in DOMAIN chkParas : i \notin ParagraphLines(chkParas[k])
    /\ \A j \in DOMAIN chkResults : chkResults[j].line # i

\* C13: no line of a math environment, from its begin marker through its end
\* marker, lies in a paragraph or carries a result; when every line with
\* words stands in a math environment there is no paragraph and no result.
C13_MathEnvironmentSkipped ==
    Checked =>
        /\ \A i \in LineNumbers : InMathEnvironment(i) => OutsideEverything(i)
        /\ (\A i \in LineNumbers :
                WordRuns(chkDoc[i + 1]) # <<>> => InMathEnvironment(i))
               => chkParas = <<>> /\ chkResults = <<>>

\* a repeated token stands inside a math environment that follows a
\* paragraph in which the same token is reported
C13_Witness ==
    /\ Checked
    /\ chkResults # <<>>
    /\ \E i \in LineNumbers :
           /\ InMathEnvironment(i)
           /\ ~HasMarker(chkDoc[i + 1], MathMarkers("begin"))
           /\ TokenCount(chkDoc[i + 1], "dup") >= 2

\* C14: no line of a table environment lies in a paragraph or carries a
\* result.
C14_TableEnvironmentSkipped ==
    Checked =>
        \A i \in LineNumbers : InTable(i) => OutsideEverything(i)

\* C15: no line in the range of a paragraph belongs to a math or
\* bibliography environment.
C15_NoRegionLineInParagraph ==
    Checked =>
        \A k \in DOMAIN chkParas : \A i \in ParagraphLines(chkParas[k]) :
            ~InMathEnvironment(i) /\ ~InBibliography(i)

\* a paragraph ends on the line before the begin marker of a bibliography,
\* and prose with a repeated token follows inside the bibliography
C15_Witness ==
    /\ Checked
    /\ \E k \in DOMAIN chkParas :
           LET b == chkParas[k].endLine + 1
           IN  /\ b + 1 \in LineNumbers
               /\ HasMarker(chkDoc[b + 1], BibMarkers("begin"))
               /\ InBibliography(b + 1)
               /\ TokenCount(chkDoc[b + 2], "dup") >= 2

\* C16: every paragraph has startLine <= endLine and a non-empty trimmed
\* text, and the paragraphs are listed in strictly increasing line order
\* without overlap.
C16_ParagraphsOrdered ==
    Checked =>
        /\ \A k \in DOMAIN chkParas :
               /\ chkParas[k].startLine <= chkParas[k].endLine
               /\ chkParas[k].startLine \in LineNumbers
               /\ chkParas[k].endLine \in LineNumbers
               /\ Trim(chkParas[k].text) # <<>>
        /\ \A k \in 1..(Len(chkParas) - 1) :
               chkParas[k].endLine < chkParas[k + 1].startLine

\* two paragraphs, separated by a line that belongs to neither
C16_Witness ==
    /\ Checked
    /\ Len(chkParas) >= 2
    /\ chkParas[1].endLine + 1 < chkParas[2].startLine

\* a comment-only line: the first character that is no space is %
IsCommentOnly(lineText) ==
    \E m \in DOMAIN lineText :
        lineText[m] = "%" /\ \A n \in 1..(m - 1) : lineText[n] = " "

\* the lines i..last of the document that are not comment-only
RECURSIVE ContentLinesFrom(_, _)
ContentLinesFrom(i, last) ==
    IF i > last THEN <<>>
    ELSE (IF IsCommentOnly(chkDoc[i + 1]) THEN <<>> ELSE <<chkDoc[i + 1]>>)
         \o ContentLinesFrom(i + 1, last)

\* C17: a comment-only line carries no result, adds no text to the paragraph
\* around it, and does not end it: a line of plain prose directly before it
\* and one directly after it lie in the same paragraph.
C17_CommentLineIgnored ==
    Checked =>
        \A i \in LineNumbers :
            IsCommentOnly(chkDoc[i + 1]) =>
                /\ \A j \in DOMAIN chkResults : chkResults[j].line # i
                /\ \A k \in DOMAIN chkParas :
                       (/\ i \in ParagraphLines(chkParas[k])
                        /\ \A m \in ParagraphLines(chkParas[k]) :
                               IsCommentOnly(chkDoc[m + 1]) \/ IsPlainLine(chkDoc[m + 1]))
                           => chkParas[k].text
                                  = Trim(Join(ContentLinesFrom(chkParas[k].startLine,
                                                               chkParas[k].endLine)))
                /\ \A k \in DOMAIN chkParas :
                       (/\ i - 1 \in ParagraphLines(chkParas[k])
                        /\ i + 1 \in LineNumbers
                        /\ IsPlainLine(chkDoc[i + 2])
                        /\ chkDoc[i + 2] # <<>>)
                           => i + 1 \in ParagraphLines(chkParas[k])

-----------------------------------------------------------------------------
(* Executor.runFullCheck and Executor.runIncrementalCheck over several       *)
(* registered modules, some of which throw from check.                       *)

ModuleNames == {"duplicate-word", "paragraph-length"}

\* Executor.modules in registration order (a Map iterates in insertion
\* order): the duplicate-word checker, whose enabled flag follows its
\* settings, and a second module registered through registerModule.  A module
\* named in `throwing` throws from check in this pass.
RegisteredModules(st, throwing) ==
    <<[name |-> "duplicate-word", enabled |-> st.enabled,
       throws |-> "duplicate-word" \in throwing],
      [name |-> "paragraph-length", enabled |-> TRUE,
       throws |-> "paragraph-length" \in throwing]>>

\* module.check(context) when it returns: the duplicate-word checker's check;
\* the second module stands for any other CheckerModule and returns one
\* result per paragraph of the context
ModuleCheck(m, paragraphs, document, st) ==
    IF m.name = "duplicate-word" THEN check(paragraphs, document, st)
    ELSE [k \in DOMAIN paragraphs |->
             [line |-> paragraphs[k].startLine, startChar |-> 0, endChar |-> 0,
              message |-> "Paragraph length", issueType |-> m.name, text |-> ""]]

\* faulty variant of CatchModuleError: the exception leaves the loop
CatchModuleError_Uncaught(acc, m) == [acc EXCEPT !.raised = TRUE]

\* "catch (error) { console.error(...) }": the error is logged, nothing is
\* pushed, the loop goes on
CatchModuleError(acc, m) == acc

\* "for (const module of this.modules.values()) if (module.enabled) try {...}"
\* acc.raised: an exception has left the loop; acc.results: allResults
RECURSIVE RunModulesFrom(_, _, _, _, _, _)
RunModulesFrom(modules, k, paragraphs, document, st, acc) ==
    IF k > Len(modules) \/ acc.raised THEN acc
    ELSE RunModulesFrom(modules, k + 1, paragraphs, document, st,
            IF ~modules[k].enabled THEN acc
            ELSE IF modules[k].throws THEN CatchModuleError(acc, modules[k])
            ELSE [acc EXCEPT !.results =
                      @ \o ModuleCheck(modules[k], paragraphs, document, st)])

runFullCheckModules(modules, paragraphs, document, st) ==
    RunModulesFrom(modules, 1, paragraphs, document, st,
                   [raised |-> FALSE, results |-> <<>>])

\* "paragraphs: paragraphIndices.map(idx => context.paragraphs[idx])"
FilteredParagraphs(paragraphs, paragraphIndices) ==
    [k \in DOMAIN paragraphIndices |-> paragraphs[paragraphIndices[k] + 1]]

runIncrementalCheckModules(modules, paragraphs, document, st, paragraphIndices) ==
    RunModulesFrom(modules, 1, FilteredParagraphs(paragraphs, paragraphIndices),
                   document, st, [raised |-> FALSE, results |-> <<>>])

\* the ordinals of the set S in increasing order, as the loop of runChecks
\* collects them
RECURSIVE OrdinalsFrom(_, _, _)
OrdinalsFrom(S, i, n) ==
    IF i >= n THEN <<>>
    ELSE (IF i \in S THEN <<i>> ELSE <<>>) \o OrdinalsFrom(S, i + 1, n)

ModuleInit ==
    /\ NoExtension
    /\ chkDoc \in SeqsUpTo({DupDup, DupWord, BlankLine}, MaxCheckLines)
    /\ settings \in {DefaultSettings, [DefaultSettings EXCEPT !.enabled = FALSE]}
    /\ chkParas = <<>>
    /\ chkDups = <<>>
    /\ chkResults = <<>>
    /\ chkPc = "ready"
    /\ docs = <<>>
    /\ cache = <<>>
    /\ pass = NoPass
    /\ since = <<>>
    /\ edits = 0

\* what the pass was given and what it returned
RecordModules(kind, modules, context, outcome) ==
    /\ pass' = [kind |-> kind, modules |-> modules, context |-> context,
                raised |-> outcome.raised, results |-> outcome.results]
    /\ UNCHANGED <<extVars, docs, cache, settings, since, edits, chkVars>>

\* runFullCheck(context) in a pass in which the modules of `throwing` throw
RunFullCheck(throwing) ==
    /\ chkPc = "ready"
    /\ RecordModules("full", RegisteredModules(settings, throwing),
                     parseDocument(chkDoc),
                     runFullCheckModules(RegisteredModules(settings, throwing),
                                         parseDocument(chkDoc), chkDoc, settings))

\* runIncrementalCheck(context, paragraphIndices) for the changed ordinals S
RunIncrementalCheck(throwing, S) ==
    /\ chkPc = "ready"
    /\ S # {}
    /\ S \subseteq 0..(Len(parseDocument(chkDoc)) - 1)
    /\ RecordModules("incremental", RegisteredModules(settings, throwing),
                     FilteredParagraphs(parseDocument(chkDoc),
                         OrdinalsFrom(S, 0, Len(parseDocument(chkDoc)))),
                     runIncrementalCheckModules(RegisteredModules(settings, throwing),
                         parseDocument(chkDoc), chkDoc, settings,
                         OrdinalsFrom(S, 0, Len(parseDocument(chkDoc)))))

ModuleNext ==
    \/ \E throwing \in SUBSET ModuleNames : RunFullCheck(throwing)
    \/ \E throwing \in SUBSET ModuleNames :
           \E S \in SUBSET (0..(MaxCheckLines - 1)) : RunIncrementalCheck(throwing, S)

SpecModules == ModuleInit /\ [][ModuleNext]_vars

\* the results of the pass that carry the issue type of module `name`
ResultsOfModule(name) == SelectSeq(pass.results, LAMBDA r : r.issueType = name)

\* C22: a pass in which a module throws does not raise; each enabled module
\* that does not throw has all its results in the pass's result list, and a
\* module that throws (or is disabled) has none.
C22_ThrowingModuleIsIsolated ==
    pass.kind \in {"full", "incremental"} =>
        /\ ~pass.raised
        /\ \A k \in DOMAIN pass.modules :
               ResultsOfModule(pass.modules[k].name)
                   = IF pass.modules[k].enabled /\ ~pass.modules[k].throws
                     THEN ModuleCheck(pass.modules[k], pass.context, chkDoc, settings)
                     ELSE <<>>

\* an incremental pass in which the second module throws and the results of
\* the first, the duplicate-word checker, are returned
C22_Witness ==
    /\ pass.kind = "incremental"
    /\ pass.modules[2].throws
    /\ ~pass.modules[1].throws
    /\ pass.results # <<>>

-----------------------------------------------------------------------------
(* DuplicateWordChecker.check on a context whose document has lost lines     *)
(* since its paragraphs were computed.                                       *)

\* the line numbers findAllOccurrences hands to document.lineAt
RECURSIVE LinesReadFrom(_, _, _)
LinesReadFrom(currentLine, endLine, lineCount) ==
    IF ~LoopContinues(currentLine, endLine, lineCount) THEN <<>>
    ELSE <<currentLine>> \o LinesReadFrom(currentLine + 1, endLine, lineCount)

\* all line numbers check reads: findAllOccurrences runs for the paragraphs
\* that have a duplicate
CheckReads(paragraphs, document, st) ==
    UNION {Range(LinesReadFrom(paragraphs[k].startLine, paragraphs[k].endLine,
                               Len(document))) :
              k \in {m \in DOMAIN paragraphs :
                        findDuplicatesInText(paragraphs[m].text, st) # <<>>}}

\* check(context): TextDocument.lineAt throws for a line number that is not
\* below lineCount, and check has no handler, so the exception leaves check
CheckOutcome(paragraphs, document, st, read) ==
    IF \E l \in read : l >= Len(document)
    THEN [raised |-> TRUE, read |-> read, results |-> <<>>]
    ELSE [raised |-> FALSE, read |-> read, results |-> check(paragraphs, document, st)]

\* the context: the paragraphs of a document d, and what is left of d after
\* its last lines were deleted
StaleInit ==
    /\ NoExtension
    /\ \E d \in SeqsUpTo({DupDup, DupWord, BlankLine}, MaxCheckLines) :
           \E n \in 0..Len(d) :
               /\ chkParas = parseDocument(d)
               /\ chkDoc = SubSeq(d, 1, n)
    /\ settings = DefaultSettings
    /\ chkDups = <<>>
    /\ chkResults = <<>>
    /\ chkPc = "ready"
    /\ docs = <<>>
    /\ cache = <<>>
    /\ pass = NoPass
    /\ since = <<>>
    /\ edits = 0

RecordStaleCheck(outcome) ==
    /\ pass' = [kind |-> "check", raised |-> outcome.raised, read |-> outcome.read]
    /\ chkResults' = outcome.results
    /\ chkDups' = [k \in DOMAIN chkParas |->
                      findDuplicatesInText(chkParas[k].text, settings)]
    /\ chkPc' = "checked"
    /\ UNCHANGED <<extVars, chkDoc, chkParas, settings, docs, cache, since, edits>>

\* DuplicateWordChecker.check(context) on the context as it stands
CheckStaleContext ==
    /\ chkPc = "ready"
    /\ RecordStaleCheck(CheckOutcome(chkParas, chkDoc, settings,
                                     CheckReads(chkParas, chkDoc, settings)))

SpecStale == StaleInit /\ [][CheckStaleContext]_vars

\* C23: check does not raise and reads no line at or beyond the line count;
\* every result lies on a line of its paragraph that the document still has.
C23_MissingLinesSkipped ==
    pass.kind = "check" =>
        /\ ~pass.raised
        /\ \A l \in pass.read : l < Len(chkDoc)
        /\ \A j \in DOMAIN chkResults : \E k \in DOMAIN chkParas :
               /\ ResultToken(chkResults[j]) \in Range(chkDups[k])
               /\ chkResults[j].line >= chkParas[k].startLine
               /\ chkResults[j].line <= chkParas[k].endLine
               /\ chkResults[j].line <= Len(chkDoc) - 1

\* a paragraph with a duplicate reaches beyond the end of the document and
\* results are reported on the lines that are left
C23_Witness ==
    /\ pass.kind = "check"
    /\ \E k \in DOMAIN chkParas :
           /\ chkParas[k].endLine >= Len(chkDoc)
           /\ chkParas[k].startLine < Len(chkDoc)
           /\ chkDups[k] # <<>>
    /\ chkResults # <<>>

-----------------------------------------------------------------------------
(* The analyzer runs with documents being closed.                            *)

\* the host closes document u.  extension.ts subscribes to
\* onDidChangeConfiguration, onDidChangeActiveTextEditor and
\* onDidChangeTextDocument only, so no code of the extension runs on a close
\* and the executor's state stays as it is; the history notes the close.  The
\* document can be opened again: what is done to u afterwards is done to the
\* reopened document.
CloseDocument(u) ==
    /\ edits < MaxEdits
    /\ "close" \notin since[u]
    /\ since' = [since EXCEPT ![u] = @ \cup {"close"}]
    /\ edits' = edits + 1
    /\ pass' = NoPass
    /\ UNCHANGED <<extVars, docs, cache, settings, chkVars>>

LifecycleNext ==
    \/ Next
    \/ \E u \in DOMAIN docs : CloseDocument(u)

SpecLifecycle == ExecInit /\ [][LifecycleNext]_vars

\* C25: a document has no cache entry before its first analysis, none after
\* the cache was cleared for it, and none after it was closed (until the next
\* pass on it creates one).
C25_CacheEntryLifecycle ==
    \A u \in DOMAIN docs :
        (since[u] \cap {"new", "clear", "close"} # {}) => cache[u] = NoCache

-----------------------------------------------------------------------------
(* DocumentParser: documents that are not LaTeX *)

MaxGenericLines == 4

SpaceLine == <<" ">>
PaddedDup == <<" ", "dup", " ">>

GenericLines == {CommentDup, BlankLine, SpaceLine, PaddedDup}

\* a file name is its stem followed by its extension
FileNames == {<<"a", ".tex">>, <<"a", ".md">>, <<"a", ".txt">>}
LanguageIds == {"latex", "markdown", "plaintext"}

\* fileName.endsWith(extension)
EndsWith(fileName, extension) == fileName[Len(fileName)] = extension

getFileType(languageId, fileName) ==
    IF languageId = "latex" \/ EndsWith(fileName, ".tex") THEN "latex"
    ELSE IF languageId = "markdown" \/ EndsWith(fileName, ".md") THEN "markdown"
    ELSE IF EndsWith(fileName, ".qmd") THEN "quarto"
    ELSE IF EndsWith(fileName, ".Rmd") THEN "rmarkdown"
    ELSE "text"

\* faulty variant of IsBlankLine: only the empty line is blank
IsBlankLine_EmptyOnly(line) == line = <<>>

\* line.trim() === ''
IsBlankLine(line) == Trim(line) = <<>>

\* "const paragraphText = currentParagraph.join(' ').trim();
\*  if (paragraphText.length > 0) paragraphs.push({...})"
PushGenericParagraph(paragraphs, currentParagraph, startLine, endLine) ==
    LET paragraphText == Trim(Join(currentParagraph))
    IN  IF Len(paragraphText) > 0
        THEN Append(paragraphs, [text |-> paragraphText,
                                 startLine |-> startLine,
                                 endLine |-> endLine])
        ELSE paragraphs

\* the loop of parseGenericParagraphs from line i on, and the last paragraph
RECURSIVE GenericParagraphsFrom(_, _, _, _, _)
GenericParagraphsFrom(document, i, paragraphs, currentParagraph, paragraphStartLine) ==
    IF i >= Len(document)
    THEN IF Len(currentParagraph) > 0
         THEN PushGenericParagraph(paragraphs, currentParagraph,
                                   paragraphStartLine, Len(document) - 1)
         ELSE paragraphs
    ELSE LET line == document[i + 1]
         IN  IF IsBlankLine(line)
             THEN GenericParagraphsFrom(document, i + 1,
                      IF Len(currentParagraph) > 0
                      THEN PushGenericParagraph(paragraphs, currentParagraph,
                                                paragraphStartLine, i - 1)
                      ELSE paragraphs,
                      <<>>, i + 1)
             ELSE GenericParagraphsFrom(document, i + 1, paragraphs,
                      Append(currentParagraph, line),
                      IF Len(currentParagraph) = 0 THEN i ELSE paragraphStartLine)

parseGenericParagraphs(document) == GenericParagraphsFrom(document, 0, <<>>, <<>>, 0)

\* DocumentParser.parseDocument: the paragraphs, by file type
ParagraphsByFileType(document, fileType) ==
    IF fileType = "latex" THEN parseLatexParagraphs(document)
    ELSE parseGenericParagraphs(document)

GenericInit ==
    /\ NoExtension
    /\ chkDoc \in SeqsUpTo(GenericLines, MaxGenericLines)
    /\ \E l \in LanguageIds, f \in FileNames :
           pass = [kind |-> "opened", languageId |-> l, fileName |-> f,
                   fileType |-> "unknown"]
    /\ settings = DefaultSettings
    /\ chkParas = <<>>
    /\ chkDups = <<>>
    /\ chkResults = <<>>
    /\ chkPc = "idle"
    /\ docs = <<>>
    /\ cache = <<>>
    /\ since = <<>>
    /\ edits = 0

RecordParse(fileType) ==
    /\ chkParas' = ParagraphsByFileType(chkDoc, fileType)
    /\ pass' = [pass EXCEPT !.kind = "parsed", !.fileType = fileType]
    /\ chkPc' = "ready"
    /\ UNCHANGED <<extVars, chkDoc, chkDups, chkResults, settings, docs, cache, since, edits>>

\* DocumentParser.parseDocument(document)
ParseDocument ==
    /\ chkPc = "idle"
    /\ RecordParse(getFileType(pass.languageId, pass.fileName))

SpecGeneric == GenericInit /\ [][ParseDocument]_vars

\* line k (zero-based) of the parsed document has a character that is not a space
HasInk(k) == \E x \in 1..Len(chkDoc[k + 1]) : chkDoc[k + 1][x] # " "

\* the maximal runs <<first, last>> of consecutive lines with a non-space character
MaximalRuns ==
    LET L == 0..(Len(chkDoc) - 1)
    IN  {r \in L \X L :
            /\ r[1] <= r[2]
            /\ \A k \in r[1]..r[2] : HasInk(k)
            /\ r[1] = 0 \/ ~HasInk(r[1] - 1)
            /\ r[2] = Len(chkDoc) - 1 \/ ~HasInk(r[2] + 1)}

\* lines first..last with one space between consecutive lines
RECURSIVE LinesOfRun(_, _)
LinesOfRun(first, last) ==
    IF first = last THEN chkDoc[last + 1]
    ELSE LinesOfRun(first, last - 1) \o <<" ">> \o chkDoc[last + 1]

\* t from its first to its last character that is not a space
WithoutOuterSpaces(t) ==
    LET ink == {x \in 1..Len(t) : t[x] # " "}
    IN  IF ink = {} THEN <<>>
        ELSE SubSeq(t, CHOOSE x \in ink : \A y \in ink : x <= y,
                       CHOOSE x \in ink : \A y \in ink : y <= x)

\* C26: for a document that is not LaTeX, the paragraphs are the maximal runs
\* of non-blank lines: one paragraph per run, from its first to its last
\* line, with the run's lines joined by single spaces and trimmed as text;
\* a non-blank line lies in exactly one paragraph and a blank or
\* whitespace-only line in none.
C26_GenericParagraphsAreMaximalRuns ==
    (pass.kind = "parsed" /\ pass.fileType # "latex") =>
        /\ Len(chkParas) = Cardinality(MaximalRuns)
        /\ {<<chkParas[j].startLine, chkParas[j].endLine>> : j \in DOMAIN chkParas}
               = MaximalRuns
        /\ \A j \in DOMAIN chkParas :
               chkParas[j].text =
                   WithoutOuterSpaces(LinesOfRun(chkParas[j].startLine, chkParas[j].endLine))
        /\ \A k \in 0..(Len(chkDoc) - 1) :
               Cardinality({j \in DOMAIN chkParas :
                               chkParas[j].startLine <= k /\ k <= chkParas[j].endLine})
                   = IF HasInk(k) THEN 1 ELSE 0

\* a non-LaTeX document with two paragraphs, one of them of several lines,
\* and a whitespace-only line has been parsed
C26_Witness ==
    /\ pass.kind = "parsed"
    /\ pass.fileType # "latex"
    /\ Len(chkParas) = 2
    /\ \E j \in DOMAIN chkParas : chkParas[j].startLine < chkParas[j].endLine
    /\ \E k \in DOMAIN chkDoc : chkDoc[k] = SpaceLine

-----------------------------------------------------------------------------
(* The exclusion list file (highlighter.ts and the file-backed checker) *)

MaxListedLines == 2

\* excludeWords.json as found on disk: absent, or present with a content
\* that is no JSON text, the JSON null, an object without excludedWords, or
\* an object with an excludedWords array
MissingFile == [exists |-> FALSE]
InvalidJsonFile == [exists |-> TRUE, valid |-> FALSE]
NullJsonFile == [exists |-> TRUE, valid |-> TRUE, json |-> [type |-> "null"]]
NoKeyFile == [exists |-> TRUE, valid |-> TRUE, json |-> [type |-> "object", has |-> FALSE]]
ListFile(words) == [exists |-> TRUE, valid |-> TRUE, json |-> [type |-> "object", has |-> TRUE, excludedWords |-> words]]

ListFiles ==
    {MissingFile, InvalidJsonFile, NullJsonFile, NoKeyFile,
     ListFile(<<"the">>), ListFile(<<"dup", "the">>)}

ListedLines == {DupDupWord, DupWord, BlankLine, TheTheDup, CommentDup}

\* fs.readFileSync(filePath, 'utf-8'): throws when the file does not exist
readFileSync(file) ==
    IF file.exists THEN [raised |-> FALSE, data |-> file] ELSE [raised |-> TRUE]

\* JSON.parse(data): throws a SyntaxError on a text that is not JSON
JSONParse(data) ==
    IF data.valid THEN [raised |-> FALSE, json |-> data.json] ELSE [raised |-> TRUE]

\* "json.excludedWords || []": reading a property of null throws a TypeError
ExcludedWordsOf(json) ==
    IF json.type = "null" THEN [raised |-> TRUE]
    ELSE IF json.has THEN [raised |-> FALSE, words |-> json.excludedWords]
    ELSE [raised |-> FALSE, words |-> <<>>]

\* faulty variant of CatchLoadError: the error is thrown again
CatchLoadError_Rethrown(file) == [raised |-> TRUE, words |-> <<>>]

\* the catch clause: console.error, then "return []"
CatchLoadError(file) == [raised |-> FALSE, words |-> <<>>]

\* highlighter.ts getExcludedWords()
ExcludedWordsFromFile(file) ==
    LET read == readFileSync(file)
    IN  IF read.raised THEN CatchLoadError(file)
        ELSE LET parsed == JSONParse(read.data)
             IN  IF parsed.raised THEN CatchLoadError(file)
                 ELSE LET got == ExcludedWordsOf(parsed.json)
                      IN  IF got.raised THEN CatchLoadError(file) ELSE got

\* DuplicateWordChecker.loadDefaultExcludedWords() of the file-backed checker
loadDefaultExcludedWords(file) == ExcludedWordsFromFile(file)

\* "words.filter((word, index) => words.indexOf(word) !== index)" keeps every
\* occurrence after the first, and "Array.from(new Set(repeats))" the first
\* of those for each word: the second occurrence of each word
RepeatsOf(words) ==
    LET second == SelectSeq([k \in DOMAIN words |-> k],
                      LAMBDA k : Cardinality({m \in 1..(k - 1) : words[m] = words[k]}) = 1)
    IN  [j \in DOMAIN second |-> words[second[j]]]

\* highlighter.ts findRepeatedWords(line)
findRepeatedWords(line, file) ==
    LET excludedWords == ExcludedWordsFromFile(file)
    IN  IF excludedWords.raised THEN [raised |-> TRUE, repeats |-> <<>>]
        ELSE [raised |-> FALSE,
              repeats |-> RepeatsOf(SelectSeq(Tokens(line),
                              LAMBDA word : word \notin Range(excludedWords.words)))]

Unconstructed == [constructed |-> FALSE]

ListInit ==
    /\ NoExtension
    /\ chkDoc \in SeqsUpTo(ListedLines, MaxListedLines)
    /\ \E f \in ListFiles : pass = [kind |-> "installed", file |-> f]
    /\ settings = Unconstructed
    /\ chkParas = <<>>
    /\ chkDups = <<>>
    /\ chkResults = <<>>
    /\ chkPc = "ready"
    /\ docs = <<>>
    /\ cache = <<>>
    /\ since = <<>>
    /\ edits = 0

RecordConstruction(loaded) ==
    /\ settings' = [constructed |-> TRUE, raised |-> loaded.raised,
                    enabled |-> TRUE, scope |-> "paragraph",
                    excludeWords |-> [global |-> Range(loaded.words), project |-> {}]]
    /\ UNCHANGED <<extVars, pass, chkVars, docs, cache, since, edits>>

\* the field initialiser of the file-backed checker's settings
ConstructChecker ==
    /\ ~settings.constructed
    /\ RecordConstruction(loadDefaultExcludedWords(pass.file))

RecordRepeats(found) ==
    /\ chkResults' = [k \in DOMAIN found |-> found[k].repeats]
    /\ pass' = [kind |-> "found", file |-> pass.file,
                raised |-> \E k \in DOMAIN found : found[k].raised]
    /\ chkPc' = "checked"
    /\ UNCHANGED <<extVars, chkDoc, chkParas, chkDups, settings, docs, cache, since, edits>>

\* the highlight provider, asked at a position on each line of the document:
\* findRepeatedWords(lineText)
provideDocumentHighlights ==
    /\ chkPc = "ready"
    /\ RecordRepeats([k \in DOMAIN chkDoc |-> findRepeatedWords(chkDoc[k], pass.file)])

ListNext == ConstructChecker \/ provideDocumentHighlights

SpecList == ListInit /\ [][ListNext]_vars

\* the file is missing or is not valid JSON
CannotBeLoaded(file) == ~file.exists \/ ~file.valid

\* the tokens met at least twice on line k of the document
TwiceOnLine(k) == {t \in TokenSet(chkDoc[k]) : TokenCount(chkDoc[k], t) >= 2}

\* C27: with an exclusion list file that is missing or not valid JSON, loading
\* raises nothing and gives the empty list: the constructed checker excludes
\* no word from its global list, and findRepeatedWords reports every word met
\* twice on a line, none left out.
C27_UnloadableListIsEmpty ==
    CannotBeLoaded(pass.file) =>
        /\ settings.constructed =>
               ~settings.raised /\ settings.excludeWords.global = {}
        /\ pass.kind = "found" =>
               /\ ~pass.raised
               /\ \A k \in DOMAIN chkDoc : Range(chkResults[k]) = TwiceOnLine(k)

\* with an unloadable file the checker was constructed and "the", which the
\* shipped list excludes, was reported as repeated
C27_Witness ==
    /\ CannotBeLoaded(pass.file)
    /\ settings.constructed
    /\ pass.kind = "found"
    /\ \E k \in DOMAIN chkDoc : "the" \in Range(chkResults[k])

-----------------------------------------------------------------------------
(* The analyzer runs under one configuration: every edit is followed by a    *)
(* pass before the next edit.                                                *)

EditNext ==
    \/ \E u \in DOMAIN docs, i \in 1..MaxLines, l \in EditLines : "edit" \notin since[u] /\ ReplaceLine(u, i, l)
    \/ \E u \in DOMAIN docs, i \in 1..(MaxLines + 1), l \in EditLines : "edit" \notin since[u] /\ InsertLine(u, i, l)
    \/ \E u \in DOMAIN docs, i \in 1..MaxLines : "edit" \notin since[u] /\ DeleteLine(u, i)
    \/ \E u \in DOMAIN docs : RunChecks(u)

SpecEdits == ExecInit /\ [][EditNext]_vars

\* C28: after a pass, the cached results are, as a set, the results of a full
\* check of the document as it now is.
C28_CacheEqualsFullCheck ==
    pass.kind = "run" =>
        Range(PassAfter.results) = Range(FullResultsNow(pass.uri))

\* C29: after an incremental pass in which every paragraph had changed, all
\* results of the earlier passes are results of a changed paragraph's previous
\* content, so none is left: what the cache holds are results of the
\* document as it now is.
C29_NoResultOfPreviousContent ==
    (/\ pass.kind = "run"
     /\ pass.branch = "incremental"
     /\ Len(pass.changed) = Len(PassParagraphs)) =>
        Range(PassAfter.results) \subseteq Range(FullResultsNow(pass.uri))

-----------------------------------------------------------------------------
(* Duplicates and their highlighted occurrences *)

\* the results for token t located on the lines of paragraph p
ResultsFor(p, t) ==
    {j \in DOMAIN chkResults :
        /\ chkResults[j].line \in ParagraphLines(p)
        /\ ResultToken(chkResults[j]) = t}

\* C31: every token found duplicated in a paragraph has at least two results
\* on the lines of that paragraph.
C31_DuplicateHasTwoResults ==
    Checked =>
        \A k \in DOMAIN chkParas : \A t \in Range(chkDups[k]) :
            Cardinality(ResultsFor(chkParas[k], t)) >= 2

-----------------------------------------------------------------------------
(* Exclusion lists written by hand in the settings *)

\* exclusion lists as the settings file can hold them: entries in lower
\* case, with a capital, in capitals
ExcludeSettings ==
    {DefaultSettings,
     [DefaultSettings EXCEPT !.excludeWords.project = {"dup"}],
     [DefaultSettings EXCEPT !.excludeWords.project = {"Dup"}],
     [DefaultSettings EXCEPT !.excludeWords.global = @ \cup {"DUP"}]}

ExcludeInit ==
    /\ NoExtension
    /\ chkDoc \in SeqsUpTo({DupDupWord, DupWord, BlankLine}, MaxCheckLines)
    /\ settings \in ExcludeSettings
    /\ chkParas = <<>>
    /\ chkDups = <<>>
    /\ chkResults = <<>>
    /\ chkPc = "ready"
    /\ docs = <<>>
    /\ cache = <<>>
    /\ pass = NoPass
    /\ since = <<>>
    /\ edits = 0

SpecExclude == ExcludeInit /\ [][CheckDocument]_vars

\* C32: no result is reported for a word that is, case disregarded, an entry
\* of the exclusion lists, however the entry is written.
C32_ExclusionIgnoresCase ==
    Checked =>
        \A j \in DOMAIN chkResults : \A e \in getExcludedWords(settings) :
            Lower(e) # ResultToken(chkResults[j])

-----------------------------------------------------------------------------
(* The analyzer runs with modules that throw in some passes *)

\* the branches of runChecks over the registered modules; an exception that
\* leaves runFullCheck or runIncrementalCheck leaves runChecks before the
\* cache entry is assigned
RunChecksModulesBranches(paragraphs, document, docCache, st, currentHashes, changedParagraphIndices, modules) ==
    IF ParagraphCountChanged(docCache, paragraphs)
    THEN LET all == runFullCheckModules(modules, paragraphs, document, st)
         IN  [branch |-> "full", raised |-> all.raised,
              entry |-> IF all.raised THEN docCache
                        ELSE [paragraphHashes |-> currentHashes,
                              results |-> all.results]]
    ELSE IF Len(changedParagraphIndices) > 0
    THEN LET new == runIncrementalCheckModules(modules, paragraphs, document, st,
                                               changedParagraphIndices)
         IN  [branch |-> "incremental", raised |-> new.raised,
              entry |-> IF new.raised THEN docCache
                        ELSE [paragraphHashes |-> currentHashes,
                              results |->
                                  UnchangedResults(docCache.results, paragraphs,
                                                   changedParagraphIndices)
                                  \o new.results]]
    ELSE [branch |-> "noop", raised |-> FALSE, entry |-> docCache]

RunChecksModulesParsed(paragraphs, document, entry, st, modules) ==
    RunChecksModulesBranches(paragraphs, document, GetOrCreateCache(entry), st,
                             CurrentHashes(paragraphs),
                             ChangedParagraphIndices(GetOrCreateCache(entry),
                                                     CurrentHashes(paragraphs)),
                             modules)

\* the history's note that module m threw in the last pass
ThrewTag(m) == IF m = "duplicate-word" THEN "threw duplicate-word" ELSE "threw paragraph-length"

\* the modules whose check was called in a pass of the given branch
ModulesCalled(branch, modules) ==
    IF branch = "noop" THEN {}
    ELSE {modules[k].name : k \in {x \in DOMAIN modules : modules[x].enabled}}

RecordModulesPass(u, throwing, modules, out) ==
    /\ cache' = [cache EXCEPT ![u] = out.entry]
    /\ pass' = [kind |-> "run", uri |-> u, branch |-> out.branch,
                throwing |-> throwing, raised |-> out.raised,
                before |-> cache[u], since |-> since[u]]
    /\ since' = [since EXCEPT ![u] =
                     {ThrewTag(m) : m \in throwing \cap ModulesCalled(out.branch, modules)}]
    /\ UNCHANGED <<extVars, docs, settings, edits, chkVars>>

\* Executor.runChecks(editor) for the editor of document u, in a pass in which
\* the modules of `throwing` throw when their check is called
RunChecksThrowing(u, throwing) ==
    RecordModulesPass(u, throwing, RegisteredModules(settings, throwing),
        RunChecksModulesParsed(parseDocument(docs[u]), docs[u], cache[u], settings,
                               RegisteredModules(settings, throwing)))

FailureNext ==
    \/ \E u \in DOMAIN docs, i \in 1..MaxLines, l \in EditLines : ReplaceLine(u, i, l)
    \/ \E u \in DOMAIN docs, i \in 1..(MaxLines + 1), l \in EditLines : InsertLine(u, i, l)
    \/ \E u \in DOMAIN docs, i \in 1..MaxLines : DeleteLine(u, i)
    \/ \E u \in DOMAIN docs, throwing \in SUBSET ModuleNames : RunChecksThrowing(u, throwing)

SpecFailures == ExecInit /\ [][FailureNext]_vars

\* C33: when module m threw in the previous pass on a document, the document
\* was not changed since, and m does not throw in this pass, then the results
\* of m for the document are in the cached result list after this pass.
C33_FailedModuleRunsAgain ==
    pass.kind = "run" =>
        \A m \in ModuleNames \ pass.throwing :
            (pass.since = {ThrewTag(m)}) =>
                \A k \in {x \in DOMAIN RegisteredModules(settings, {}) :
                             RegisteredModules(settings, {})[x].name = m} :
                    Range(ModuleCheck(RegisteredModules(settings, {})[k],
                                      PassParagraphs, PassDoc, settings))
                        \subseteq Range(PassAfter.results)

-----------------------------------------------------------------------------
(* The analyzer runs over two open documents *)

TwoDocsInit ==
    /\ NoExtension
    /\ docs \in [{"a.tex", "b.tex"} -> {<<DupDup>>, <<DupDup, BlankLine, DupWord>>}]
    /\ cache = [u \in DOMAIN docs |-> NoCache]
    /\ settings = DefaultSettings
    /\ pass = NoPass
    /\ since = [u \in DOMAIN docs |-> {"new"}]
    /\ edits = 0
    /\ chkDoc = <<>>
    /\ chkParas = <<>>
    /\ chkDups = <<>>
    /\ chkResults = <<>>
    /\ chkPc = "idle"

\* Executor.clearCache() without argument
ClearCacheAll ==
    /\ edits < MaxEdits
    /\ \E u \in DOMAIN cache : cache[u] # NoCache
    /\ cache' = [u \in DOMAIN cache |-> NoCache]
    /\ since' = [u \in DOMAIN since |-> since[u] \cup {"clear"}]
    /\ edits' = edits + 1
    /\ pass' = NoPass
    /\ UNCHANGED <<extVars, docs, settings, chkVars>>

TwoDocsNext ==
    \/ \E u \in DOMAIN docs, i \in 1..MaxLines, l \in {DupDup, DupWord} : ReplaceLine(u, i, l)
    \/ \E u \in DOMAIN docs : RunChecks(u)
    \/ \E u \in DOMAIN docs : ClearCache(u)
    \/ ClearCacheAll

SpecTwoDocs == TwoDocsInit /\ [][TwoDocsNext]_vars

\* a step that is a pass on u or a clearCache(u) leaves the entries of the
\* other documents as they were; a step that is a clearCache() leaves no entry
CacheFrame ==
    /\ \A u \in DOMAIN docs :
           (RunChecks(u) \/ ClearCache(u)) =>
               \A v \in DOMAIN docs \ {u} : cache'[v] = cache[v]
    /\ ClearCacheAll => \A v \in DOMAIN docs : cache'[v] = NoCache

\* the first pass on a document after its entry was cleared finds no entry,
\* checks every paragraph and caches the results of a full check
FullAfterClear ==
    (pass.kind = "run" /\ "clear" \in pass.since) =>
        /\ pass.before = NoCache
        /\ pass.checked = Ordinals(PassParagraphs)
        /\ PassAfter.results = FullResultsNow(pass.uri)

\* C34: a pass on a document and clearCache for a document change that
\* document's cache entry only, clearCache() removes every entry, and the
\* first pass on a document after its entry was cleared is a full check of
\* all its paragraphs.
C34_CacheIsPerDocument == [][CacheFrame]_vars /\ []FullAfterClear

\* a document of two paragraphs is checked again after its entry was cleared,
\* while the other document has an entry with results
C34_Witness ==
    /\ pass.kind = "run"
    /\ "clear" \in pass.since
    /\ Len(PassParagraphs) = 2
    /\ \E v \in DOMAIN docs \ {pass.uri} :
           cache[v] # NoCache /\ cache[v].results # <<>>

-----------------------------------------------------------------------------
(* The extension: continuous checking, its timer and its commands *)

MaxEvents == 3

\* the editors of the window, by the uri of their document; "none" stands for
\* an undefined activeTextEditor
Editors == {"a.tex", "b.tex"}
NoEditor == "none"

\* document.languageId: b.tex is open in plain-text mode
LanguageIdOf(editor) == IF editor = "a.tex" THEN "latex" ELSE "plaintext"

\* the values of the highdupe.checkInterval setting
Intervals == {3000, 5000}

\* what a handler works on: the flag of extension.ts, the executor's timer
\* handle, the host's live timers, and the editor runChecks was called on
Handled == [isCheckingEnabled |-> isCheckingEnabled, checkTimer |-> checkTimer, timers |-> timers, checked |-> NoEditor]

\* setInterval returns a handle that no live timer has
NewTimerId(live) == CHOOSE id \in 1..(Cardinality(live) + 1) : \A t \in live : t.id # id

\* faulty variant of stopContinuousChecking: the handle is dropped, the
\* interval is not cleared
stopContinuousChecking_HandleOnly(x) ==
    IF x.checkTimer # 0 THEN [x EXCEPT !.checkTimer = 0] ELSE x

\* Executor.stopContinuousChecking
stopContinuousChecking(x) ==
    IF x.checkTimer # 0
    THEN [x EXCEPT !.timers = {t \in @ : t.id # x.checkTimer}, !.checkTimer = 0]
    ELSE x

\* "this.runChecks(editor); this.checkTimer = setInterval(..., checkInterval)"
SetCheckTimer(x, editor, interval) ==
    [x EXCEPT !.checked = editor,
              !.checkTimer = NewTimerId(x.timers),
              !.timers = @ \cup {[id |-> NewTimerId(x.timers), editor |-> editor,
                                  interval |-> interval]}]

\* Executor.startContinuousChecking(editor)
startContinuousChecking(x, editor, interval) ==
    SetCheckTimer(stopContinuousChecking(x), editor, interval)

\* faulty variant of toggleChecking: the flag is not cleared when checking
\* is stopped
toggleChecking_FlagKept(x, editor, interval) ==
    IF editor = NoEditor THEN x
    ELSE IF x.isCheckingEnabled THEN stopContinuousChecking(x)
    ELSE [startContinuousChecking(x, editor, interval) EXCEPT !.isCheckingEnabled = TRUE]

\* the highdupe.toggleChecking command
toggleChecking(x, editor, interval) ==
    IF editor = NoEditor THEN x
    ELSE IF x.isCheckingEnabled
    THEN [stopContinuousChecking(x) EXCEPT !.isCheckingEnabled = FALSE]
    ELSE [startContinuousChecking(x, editor, interval) EXCEPT !.isCheckingEnabled = TRUE]

\* faulty variant of onDidChangeActiveTextEditor: checking is not restarted
onDidChangeActiveTextEditor_Ignored(x, editor, interval) == x

\* the onDidChangeActiveTextEditor listener
onDidChangeActiveTextEditor(x, editor, interval) ==
    IF editor # NoEditor /\ x.isCheckingEnabled
    THEN startContinuousChecking(stopContinuousChecking(x), editor, interval)
    ELSE x

\* "Auto-start continuous checking for LaTeX files"
AutoStart(x, editor, interval) ==
    IF editor # NoEditor /\ LanguageIdOf(editor) = "latex"
    THEN [startContinuousChecking(x, editor, interval) EXCEPT !.isCheckingEnabled = TRUE]
    ELSE x

\* the onDidChangeConfiguration listener after loadConfiguration: "Re-run
\* checks if enabled"
RecheckIfEnabled(x, editor) ==
    IF x.isCheckingEnabled /\ editor # NoEditor THEN [x EXCEPT !.checked = editor] ELSE x

\* the callback of setInterval for timer t
TimerCallback(x, t, editor) ==
    IF editor = t.editor THEN [x EXCEPT !.checked = t.editor] ELSE x

TimerInit ==
    /\ docs = [u \in Editors |-> IF u = "a.tex" THEN <<DupDup>> ELSE <<DupWord>>]
    /\ cache = [u \in DOMAIN docs |-> NoCache]
    /\ settings = DefaultSettings
    /\ pass = NoPass
    /\ since = [u \in DOMAIN docs |-> {"new"}]
    /\ edits = 0
    /\ chkDoc = <<>>
    /\ chkParas = <<>>
    /\ chkDups = <<>>
    /\ chkResults = <<>>
    /\ chkPc = "idle"
    /\ activation = "inactive"
    /\ isCheckingEnabled = FALSE
    /\ activeTextEditor \in Editors \cup {NoEditor}
    /\ checkTimer = 0
    /\ timers = {}
    /\ checkInterval = 3000
    /\ userConfig \in {[checkInterval |-> i, global |-> <<>>, project |-> <<>>] : i \in Intervals}
    /\ pending = {}
    /\ events = 0

\* the state a handler leaves: flag, handle and timers as the handler returned
\* them, and the effect of runChecks when the handler called it
ApplyHandled(x, trigger) ==
    /\ isCheckingEnabled' = x.isCheckingEnabled
    /\ checkTimer' = x.checkTimer
    /\ timers' = x.timers
    /\ IF x.checked # NoEditor
       THEN /\ cache' = [cache EXCEPT ![x.checked] =
                            RunChecksOutcome(docs[x.checked], cache[x.checked], settings).entry]
            /\ pass' = [kind |-> "run", uri |-> x.checked, trigger |-> trigger]
       ELSE /\ cache' = cache
            /\ pass' = [kind |-> "event", uri |-> NoEditor, trigger |-> trigger]
    /\ UNCHANGED <<docs, settings, since, edits, chkVars, userConfig, pending>>

\* activate(context): loadConfiguration, then the auto-start
Activate ==
    /\ activation = "inactive"
    /\ activation' = "active"
    /\ checkInterval' = userConfig.checkInterval
    /\ ApplyHandled(AutoStart(Handled, activeTextEditor, userConfig.checkInterval), "activate")
    /\ UNCHANGED <<activeTextEditor, events>>

\* the user runs highdupe.toggleChecking (command or status bar item)
ToggleChecking ==
    /\ activation = "active"
    /\ events < MaxEvents
    /\ events' = events + 1
    /\ ApplyHandled(toggleChecking(Handled, activeTextEditor, checkInterval), "toggle")
    /\ UNCHANGED <<activation, activeTextEditor, checkInterval>>

\* the host makes another editor (or none) the active one and fires
\* onDidChangeActiveTextEditor
ChangeActiveTextEditor(editor) ==
    /\ activation = "active"
    /\ events < MaxEvents
    /\ editor # activeTextEditor
    /\ events' = events + 1
    /\ activeTextEditor' = editor
    /\ ApplyHandled(onDidChangeActiveTextEditor(Handled, editor, checkInterval), "editor")
    /\ UNCHANGED <<activation, checkInterval>>

\* the user sets highdupe.checkInterval; the onDidChangeConfiguration listener
\* runs loadConfiguration (Executor.configure) and re-runs the checks
ChangeCheckInterval(interval) ==
    /\ activation = "active"
    /\ events < MaxEvents
    /\ interval # userConfig.checkInterval
    /\ events' = events + 1
    /\ checkInterval' = interval
    /\ isCheckingEnabled' = isCheckingEnabled
    /\ checkTimer' = checkTimer
    /\ timers' = timers
    /\ userConfig' = [userConfig EXCEPT !.checkInterval = interval]
    /\ LET x == RecheckIfEnabled(Handled, activeTextEditor)
       IN  IF x.checked # NoEditor
           THEN /\ cache' = [cache EXCEPT ![x.checked] =
                                RunChecksOutcome(docs[x.checked], cache[x.checked], settings).entry]
                /\ pass' = [kind |-> "run", uri |-> x.checked, trigger |-> "configuration"]
           ELSE /\ cache' = cache
                /\ pass' = [kind |-> "event", uri |-> NoEditor, trigger |-> "configuration"]
    /\ UNCHANGED <<docs, settings, since, edits, chkVars, pending, activation, activeTextEditor>>

\* the host calls the callback of the live interval timer t
Tick(t) ==
    /\ t \in timers
    /\ ApplyHandled(TimerCallback(Handled, t, activeTextEditor), "tick")
    /\ UNCHANGED <<activation, activeTextEditor, checkInterval, events>>

\* Executor.dispose, through deactivate or the subscription's dispose
dispose(x) == stopContinuousChecking(x)

Deactivate ==
    /\ activation = "active"
    /\ activation' = "deactivated"
    /\ checkTimer' = dispose(Handled).checkTimer
    /\ timers' = dispose(Handled).timers
    /\ cache' = [u \in DOMAIN cache |-> NoCache]
    /\ pass' = [kind |-> "event", uri |-> NoEditor, trigger |-> "deactivate"]
    /\ UNCHANGED <<docs, settings, since, edits, chkVars, userConfig, pending,
                   isCheckingEnabled, activeTextEditor, checkInterval, events>>

TimerNext ==
    \/ Activate
    \/ ToggleChecking
    \/ \E editor \in Editors \cup {NoEditor} : ChangeActiveTextEditor(editor)
    \/ \E interval \in Intervals : ChangeCheckInterval(interval)
    \/ \E t \in timers : Tick(t)
    \/ Deactivate

SpecTimers == TimerInit /\ [][TimerNext]_vars

\* the live timers the executor holds the handle of
HeldTimers == {t \in timers : t.id = checkTimer}

\* C35: at most one interval timer is live, and it is the one the executor
\* holds the handle of; after checking was stopped by the toggle command and
\* after dispose no timer is live, so that no timer callback can run.
C35_AtMostOneTimer ==
    /\ Cardinality(timers) <= 1
    /\ timers = HeldTimers
    /\ (pass.kind = "event" /\ pass.trigger = "toggle" /\ activeTextEditor # NoEditor)
           => timers = {}
    /\ activation = "deactivated" => timers = {}

\* checking was started, restarted for another editor, and stopped
C35_Witness ==
    /\ activation = "active"
    /\ pass.kind = "event"
    /\ pass.trigger = "toggle"
    /\ activeTextEditor = "b.tex"
    /\ cache["a.tex"] # NoCache
    /\ cache["b.tex"] # NoCache
    /\ timers = {}

\* C36: while the extension is active, isCheckingEnabled holds exactly when
\* the executor has a live interval timer.
C36_FlagIffTimer ==
    activation = "active" => (isCheckingEnabled <=> HeldTimers # {})

\* checking was switched off by the toggle command after it had run
C36_Witness ==
    /\ activation = "active"
    /\ ~isCheckingEnabled
    /\ pass.kind = "event"
    /\ pass.trigger = "toggle"
    /\ activeTextEditor # NoEditor
    /\ cache[activeTextEditor] # NoCache

\* C37: a check made from a timer callback is a check of the active editor,
\* and while checking is enabled and an editor is active the live timer is
\* the one started for that editor.
C37_TimerFollowsActiveEditor ==
    /\ (pass.kind = "run" /\ pass.trigger = "tick") => pass.uri = activeTextEditor
    /\ (activation = "active" /\ isCheckingEnabled /\ activeTextEditor # NoEditor)
           => \E t \in HeldTimers : t.editor = activeTextEditor

\* the active editor changed while checking was enabled, and the new editor
\* was checked at once
C37_Witness ==
    /\ activation = "active"
    /\ isCheckingEnabled
    /\ pass.kind = "run"
    /\ pass.trigger = "editor"
    /\ pass.uri = "b.tex"
    /\ activeTextEditor = "b.tex"
    /\ cache["a.tex"] # NoCache

\* C38: the live timer fires at the interval of the executor's configuration.
C38_TimerHasConfiguredInterval ==
    activation = "active" =>
        \A t \in HeldTimers : t.interval = checkInterval

-----------------------------------------------------------------------------
(* The add-to-exclude-list commands *)

\* the words the commands are invoked with, and the two lists
CommandWords == {"Dup", "word", "the"}
Targets == {"global", "project"}

\* config.get('modules.duplicateWord.excludeWords.<target>', [])
ConfigList(config, target) == IF target = "global" THEN config.global ELSE config.project

\* the module settings loadConfiguration builds from the stored settings
LoadedModuleSettings(config) ==
    [enabled |-> TRUE, scope |-> "paragraph",
     excludeWords |-> [global |-> Range(config.global), project |-> Range(config.project)]]

\* loadConfiguration: Executor.configure with the stored settings
loadConfiguration(st, config) == ConfigureModule(st, LoadedModuleSettings(config))

CommandInit ==
    /\ docs = <<>>
    /\ cache = <<>>
    /\ userConfig = [checkInterval |-> 3000, global |-> <<>>, project |-> <<>>]
    /\ settings = loadConfiguration(DefaultSettings, userConfig)
    /\ pass = [kind |-> "commands", added |-> {}]
    /\ since = <<>>
    /\ edits = 0
    /\ chkDoc = <<>>
    /\ chkParas = <<>>
    /\ chkDups = <<>>
    /\ chkResults = <<>>
    /\ chkPc = "idle"
    /\ activation = "active"
    /\ isCheckingEnabled = FALSE
    /\ activeTextEditor = NoEditor
    /\ checkTimer = 0
    /\ timers = {}
    /\ checkInterval = 3000
    /\ pending = {}
    /\ events = 0

\* the command up to "await config.update(...)": the list is read, and when
\* the lower-cased word is not in it, the word is pushed and the update of the
\* whole list is requested
RequestUpdate(target, word, list) ==
    IF Lower(word) \in Range(list)
    THEN pending
    ELSE pending \cup {[target |-> target, word |-> Lower(word),
                        list |-> Append(list, Lower(word))]}

\* the user invokes highdupe.addToGlobalExcludeList or
\* highdupe.addToProjectExcludeList with a word
AddToExcludeList(target, word) ==
    /\ events < MaxEvents
    /\ events' = events + 1
    /\ pending' = RequestUpdate(target, word, ConfigList(userConfig, target))
    /\ pass' = IF pending' # pending
               THEN [pass EXCEPT !.added = @ \cup {[target |-> target, word |-> Lower(word)]}]
               ELSE pass
    /\ UNCHANGED <<docs, cache, settings, since, edits, chkVars, userConfig,
                   activation, isCheckingEnabled, activeTextEditor, checkTimer,
                   timers, checkInterval>>

\* the stored settings after the update p has been written
Updated(config, p) ==
    IF p.target = "global" THEN [config EXCEPT !.global = p.list]
    ELSE [config EXCEPT !.project = p.list]

\* the host completes the update p: the list is stored, the
\* onDidChangeConfiguration listener runs loadConfiguration, and the command
\* goes on after its await (no re-check: checking is not enabled)
CompleteUpdate(p) ==
    /\ p \in pending
    /\ pending' = pending \ {p}
    /\ userConfig' = Updated(userConfig, p)
    /\ settings' = loadConfiguration(settings, Updated(userConfig, p))
    /\ UNCHANGED <<docs, cache, pass, since, edits, chkVars, events,
                   activation, isCheckingEnabled, activeTextEditor, checkTimer,
                   timers, checkInterval>>

CommandNext ==
    \/ \E target \in Targets, word \in CommandWords : AddToExcludeList(target, word)
    \/ \E p \in pending : CompleteUpdate(p)

SpecCommands == CommandInit /\ [][CommandNext]_vars

\* C39: when all add-to-exclude-list commands have completed, every word a
\* command added is in the list it was added to.
C39_NoUpdateLost ==
    (pass.kind = "commands" /\ pending = {}) =>
        \A a \in pass.added : a.word \in Range(ConfigList(userConfig, a.target))

====
